---------------------------- MODULE Spec2Model ----------------------------
(***************************************************************************)
(* Software rendering pipeline of Lab5_Graficas: the Framebuffer           *)
(* (src/src/framebuffer.rs), the vertex shader (src/src/shaders.rs), the   *)
(* rasterizer (src/src/triangle.rs) and render (src/src/main.rs).          *)
(*                                                                         *)
(* Numbers.  An f32 is modelled by the exact rational it denotes, a pair   *)
(* <<n, d>> in lowest terms with d > 0; rounding of f32 arithmetic is not  *)
(* modelled.  A colour channel is an integer counting units of 1/ColorDen, *)
(* a star brightness an integer counting hundredths.  A pixel is the       *)
(* 4-tuple <<r, g, b, a>> of bytes.                                        *)
(***************************************************************************)
EXTENDS Integers, Sequences, FiniteSets, TLC

VARIABLES
    width,             \* Framebuffer.width
    height,            \* Framebuffer.height
    image,             \* Framebuffer.image: pixel <<x, y>> -> <<r, g, b, a>>
    background_color,  \* Framebuffer.background_color, three channels
    texture,           \* Framebuffer.texture: "None" or the bound texture
    star_field,        \* Framebuffer.star_field: sequence of <<x, y, brightness>>
    panicked,          \* "none", or why the process panicked (it then stops)
    cleared,           \* whether clear has been called, and the
                       \* background_color of its latest call
    last,              \* the operation executed by the latest step
    writes,            \* number of point and render calls since the latest clear
    log,               \* the point calls <<x, y, color, depth>> made by render
                       \* since the latest clear
    rendered,          \* the intermediate stages of the latest render call
    call               \* input and result of the latest pure-function call

vars == <<width, height, image, background_color, texture, star_field,
          panicked, cleared, last, writes, log, rendered, call>>

fbvars == <<width, height, image, background_color, texture, star_field>>

----------------------------------------------------------------------------
(* Integer helpers *)

Abs(n) == IF n < 0 THEN -n ELSE n

Min2(a, b) == IF a <= b THEN a ELSE b

Max2(a, b) == IF a >= b THEN a ELSE b

RECURSIVE GCD(_, _)
GCD(a, b) == IF b = 0 THEN a ELSE GCD(b, a % b)

----------------------------------------------------------------------------
(* Exact rationals standing for f32 values *)

R(n, d) ==
    LET s == IF d < 0 THEN -1 ELSE 1
        g == GCD(Abs(n), Abs(d))
    IN  <<(s * n) \div g, (s * d) \div g>>

I(n) == <<n, 1>>

RAdd(a, b) == R(a[1] * b[2] + b[1] * a[2], a[2] * b[2])

RSub(a, b) == R(a[1] * b[2] - b[1] * a[2], a[2] * b[2])

RMul(a, b) == R(a[1] * b[1], a[2] * b[2])

\* a / b for b # 0
RDiv(a, b) == R(a[1] * b[2], a[2] * b[1])

RLt(a, b) == a[1] * b[2] < b[1] * a[2]

RLe(a, b) == a[1] * b[2] <= b[1] * a[2]

RAbs(a) == <<Abs(a[1]), a[2]>>

RMin(a, b) == IF RLe(a, b) THEN a ELSE b

RMax(a, b) == IF RLe(b, a) THEN a ELSE b

\* f32::floor followed by `as i32`
RFloor(a) == a[1] \div a[2]

\* f32::ceil followed by `as i32`
RCeil(a) == -((-a[1]) \div a[2])

Zero == I(0)

\* F applied to the value of a: a is evaluated first, so that a long loop
\* unfolds into a shallow evaluation
Then(a, F(_)) == CHOOSE r \in {F(v) : v \in {a}} : TRUE

----------------------------------------------------------------------------
(* Colours *)

\* A colour channel value c stands for the f32 c / ColorDen.
ColorDen == 100

\* `v as u8` for the f32 v = n / d (d > 0): truncation toward zero,
\* saturating at 0 and 255.
AsU8(n, d) ==
    IF n <= 0 THEN 0
    ELSE IF n \div d > 255 THEN 255
    ELSE n \div d

\* f32::clamp(0.0, 1.0) on a channel
Clamp01(c) == IF c < 0 THEN 0 ELSE IF c > ColorDen THEN ColorDen ELSE c

BLACK == <<0, 0, 0, 255>>

Pixels(w, h) == (0 .. w - 1) \X (0 .. h - 1)

\* Image::gen_image_color / Image::clear_background: every pixel set to col
Fill(w, h, col) == [p \in Pixels(w, h) |-> col]

\* Image::draw_pixel: raylib drops a pixel outside the image
draw_pixel(img, w, h, x, y, col) ==
    IF x < 0 \/ x >= w \/ y < 0 \/ y >= h THEN img
    ELSE [img EXCEPT ![<<x, y>>] = col]

----------------------------------------------------------------------------
(* Framebuffer::generate_stars: the linear congruential generator.  Values *)
(* stay below 2^31, so products are formed from 15-bit halves.             *)

StarCount == 800

LcgSeed == 12345

LcgA == 1103515245

LcgC == 12345

\* m - 1 for the modulus m = 2^31
LcgMaxState == 2147483647

\* (x + y) % 2^31 for x, y in 0 .. 2^31 - 1
AddMod(x, y) ==
    IF x > LcgMaxState - y THEN x - (LcgMaxState - y) - 1 ELSE x + y

\* (a * s) % 2^31 for a, s in 0 .. 2^31 - 1
MulMod(a, s) ==
    LET a0 == a % 32768
        a1 == a \div 32768
        s0 == s % 32768
        s1 == s \div 32768
        cross == (((a1 * s0) % 65536) + ((a0 * s1) % 65536)) % 65536
        hi == ((a1 % 2) * (s1 % 2)) * 1073741824
    IN  AddMod(AddMod(a0 * s0, cross * 32768), hi)

\* seed = (a.wrapping_mul(seed).wrapping_add(c)) % m
Lcg(seed) == AddMod(MulMod(LcgA, seed), LcgC)

\* StarStep taking the brightness from seed % 71
StarStep_brightness_to_100(w, h, st) ==
    LET sx == Lcg(st[1])
        sy == Lcg(sx)
        sb == Lcg(sy)
    IN  <<sb, Append(st[2], <<sx % w, sy % h, 30 + (sb % 71)>>)>>

\* one iteration of `for _ in 0..star_count`; st = <<seed, stars>>
StarStep(w, h, st) ==
    LET sx == Lcg(st[1])
        sy == Lcg(sx)
        sb == Lcg(sy)
    IN  <<sb, Append(st[2], <<sx % w, sy % h, 30 + (sb % 70)>>)>>

\* n iterations of the loop, split in halves to keep the evaluation shallow
RECURSIVE StarLoop(_, _, _, _)
StarLoop(w, h, st, n) ==
    IF n = 0 THEN st
    ELSE IF n = 1 THEN StarStep(w, h, st)
    ELSE Then(StarLoop(w, h, st, n \div 2),
              LAMBDA half : StarLoop(w, h, half, n - (n \div 2)))

generate_stars(w, h) == StarLoop(w, h, <<LcgSeed, <<>>>>, StarCount)[2]

----------------------------------------------------------------------------
(* Framebuffer::clear *)

\* Color::new((bg.x * 255.0) as u8, (bg.y * 255.0) as u8, (bg.z * 255.0) as u8, 255)
bg_color(bg) ==
    <<AsU8(bg[1] * 255, ColorDen), AsU8(bg[2] * 255, ColorDen),
      AsU8(bg[3] * 255, ColorDen), 255>>

\* core colour of a star of brightness b hundredths
star_color(b) ==
    <<AsU8(255 * b, 100), AsU8(255 * b, 100), AsU8(255 * b * 9, 1000), 255>>

\* colour of the four arms of a bright star
arm_color(b) ==
    <<AsU8(255 * b, 200), AsU8(255 * b, 200), AsU8(255 * b * 45, 10000), 255>>

\* brightness > 0.8
IsBright(b) == b > 80

\* star_pixels without the four `if` tests on the arms
star_pixels_unclipped(w, h, star) ==
    LET x == star[1]
        y == star[2]
        b == star[3]
    IN  <<<<x, y, star_color(b)>>>>
           \o (IF IsBright(b)
               THEN <<<<x - 1, y, arm_color(b)>>, <<x + 1, y, arm_color(b)>>,
                      <<x, y - 1, arm_color(b)>>, <<x, y + 1, arm_color(b)>>>>
               ELSE <<>>)

\* the draw_pixel calls <<x, y, colour>> one iteration of the loop over
\* star_field makes, in order
star_pixels(w, h, star) ==
    LET x == star[1]
        y == star[2]
        b == star[3]
    IN  <<<<x, y, star_color(b)>>>>
           \o (IF IsBright(b)
               THEN (IF x > 0 THEN <<<<x - 1, y, arm_color(b)>>>> ELSE <<>>)
                    \o (IF x < w - 1 THEN <<<<x + 1, y, arm_color(b)>>>> ELSE <<>>)
                    \o (IF y > 0 THEN <<<<x, y - 1, arm_color(b)>>>> ELSE <<>>)
                    \o (IF y < h - 1 THEN <<<<x, y + 1, arm_color(b)>>>> ELSE <<>>)
               ELSE <<>>)

\* DrawStar without the `if x > 0` and `if y > 0` arms
DrawStar_two_arms(img, w, h, star) ==
    LET x == star[1]
        y == star[2]
        b == star[3]
        core == draw_pixel(img, w, h, x, y, star_color(b))
        right == IF x < w - 1 THEN draw_pixel(core, w, h, x + 1, y, arm_color(b))
                 ELSE core
        down == IF y < h - 1 THEN draw_pixel(right, w, h, x, y + 1, arm_color(b))
                ELSE right
    IN  IF IsBright(b) THEN down ELSE core

\* one iteration of the loop over star_field
DrawStar(img, w, h, star) ==
    LET x == star[1]
        y == star[2]
        b == star[3]
        core == draw_pixel(img, w, h, x, y, star_color(b))
        left == IF x > 0 THEN draw_pixel(core, w, h, x - 1, y, arm_color(b))
                ELSE core
        right == IF x < w - 1 THEN draw_pixel(left, w, h, x + 1, y, arm_color(b))
                 ELSE left
        up == IF y > 0 THEN draw_pixel(right, w, h, x, y - 1, arm_color(b))
              ELSE right
        down == IF y < h - 1 THEN draw_pixel(up, w, h, x, y + 1, arm_color(b))
                ELSE up
    IN  IF IsBright(b) THEN down ELSE core

\* `for &(x, y, brightness) in &self.star_field` over stars[lo .. hi],
\* split in halves to keep the evaluation shallow
RECURSIVE DrawStars(_, _, _, _, _, _)
DrawStars(img, w, h, stars, lo, hi) ==
    IF lo > hi THEN img
    ELSE IF lo = hi THEN DrawStar(img, w, h, stars[lo])
    ELSE LET mid == (lo + hi) \div 2
         IN  Then(DrawStars(img, w, h, stars, lo, mid),
                  LAMBDA half : DrawStars(half, w, h, stars, mid + 1, hi))

\* the image after clear(): clear_background, then the loop over the stars
clear_loop(w, h, bg, stars) ==
    DrawStars(Fill(w, h, bg_color(bg)), w, h, stars, 1, Len(stars))

----------------------------------------------------------------------------
(* Framebuffer state and operations *)

\* framebuffer sizes the model constructs: a small one, and 10 x 10
Dims == {<<4, 3>>, <<10, 10>>}

\* colours handed to set_background_color: black, the colour main uses
\* (0.01, 0.01, 0.05), and one with channels outside [0, 1]
BgColors == {<<0, 0, 0>>, <<1, 1, 5>>, <<150, -20, 50>>}

\* colours handed to point: pure red, and one with channels below 0,
\* above 1 and strictly inside (0, 1)
PointColors == {<<100, 0, 0>>, <<150, -50, 50>>}

\* coordinates handed to point: three pixels of the buffer, and one
\* position beyond each border and beyond the far corner
PointCoords(w, h) ==
    {<<0, 0>>, <<w \div 2, h \div 2>>, <<w - 1, h - 1>>,
     <<-1, 0>>, <<w, h \div 2>>, <<0, -1>>, <<w \div 2, h>>, <<w, h>>}

\* clear_loop tabulated for the sizes and background colours of the model
ClearTable ==
    [d \in Dims |-> [bg \in BgColors |->
        clear_loop(d[1], d[2], bg, generate_stars(d[1], d[2]))]]

StarTable == [d \in Dims |-> generate_stars(d[1], d[2])]

\* the image after clear(), looked up in ClearTable where it is tabulated
clear(w, h, bg, stars) ==
    IF <<w, h>> \in Dims /\ bg \in BgColors /\ stars = StarTable[<<w, h>>]
    THEN ClearTable[<<w, h>>][bg]
    ELSE clear_loop(w, h, bg, stars)

\* at most MaxWrites point calls between two clear calls
MaxWrites == 2

NoTexture == [some |-> FALSE, width |-> 0, height |-> 0]

Op(name) == [op |-> name, x |-> 0, y |-> 0, color |-> <<0, 0, 0>>]

NoRender == [vertex_array |-> <<>>, transformed |-> <<>>,
             triangles |-> <<>>, fragments |-> <<>>, calls |-> <<>>]

NoCall == [fn |-> "none"]

\* Framebuffer::new(w, h)
new(w, h) ==
    /\ width = w
    /\ height = h
    /\ image = Fill(w, h, BLACK)
    /\ background_color = <<0, 0, 0>>
    /\ texture = NoTexture
    /\ star_field = IF <<w, h>> \in Dims THEN StarTable[<<w, h>>]
                    ELSE generate_stars(w, h)

InitFB ==
    /\ \E d \in Dims : new(d[1], d[2])
    /\ panicked = "none"
    /\ cleared = [done |-> FALSE, background |-> <<0, 0, 0>>]
    /\ last = Op("new")
    /\ writes = 0
    /\ log = <<>>
    /\ rendered = NoRender
    /\ call = NoCall

\* the guard of point
InRange(x, y, w, h) == x >= 0 /\ y >= 0 /\ x < w /\ y < h

\* pixel_color scaling by 256 instead of 255
pixel_color_256(c) ==
    <<AsU8(Clamp01(c[1]) * 256, ColorDen), AsU8(Clamp01(c[2]) * 256, ColorDen),
      AsU8(Clamp01(c[3]) * 256, ColorDen), 255>>

\* Color::new((c.x.clamp(0.0, 1.0) * 255.0) as u8, ..., 255)
pixel_color(c) ==
    <<AsU8(Clamp01(c[1]) * 255, ColorDen), AsU8(Clamp01(c[2]) * 255, ColorDen),
      AsU8(Clamp01(c[3]) * 255, ColorDen), 255>>

\* the image after point(x, y, c)
point(img, w, h, x, y, c) ==
    IF InRange(x, y, w, h) THEN draw_pixel(img, w, h, x, y, pixel_color(c))
    ELSE img

\* point indexing the pixel buffer without the guard
point_panic_unguarded(x, y, w, h) ==
    IF InRange(x, y, w, h) THEN "none" ELSE "index out of bounds"

\* the panic, if any, raised by point(x, y, c)
point_panic(x, y, w, h) == "none"

SetBackgroundColor(c) ==
    /\ panicked = "none"
    /\ background_color' = c
    /\ last' = Op("set_background_color")
    /\ UNCHANGED <<width, height, image, texture, star_field, panicked,
                   cleared, writes, log, rendered, call>>

\* init_texture; ok is the outcome of rl.load_texture_from_image, which is
\* unwrapped
InitTexture(ok) ==
    /\ panicked = "none"
    /\ IF ok
       THEN /\ texture' = [some |-> TRUE, width |-> width, height |-> height]
            /\ UNCHANGED panicked
       ELSE /\ panicked' = "unwrap"
            /\ UNCHANGED texture
    /\ last' = Op("init_texture")
    /\ UNCHANGED <<width, height, image, background_color, star_field,
                   cleared, writes, log, rendered, call>>

\* clear drawing a star field generated afresh, the generator continuing
\* from another seed
Clear_regenerating ==
    /\ panicked = "none"
    /\ \E stars \in {StarLoop(width, height, <<LcgA, <<>>>>, StarCount)[2]} :
          /\ star_field' = stars
          /\ image' = clear_loop(width, height, background_color, stars)
    /\ cleared' = [done |-> TRUE, background |-> background_color]
    /\ writes' = 0
    /\ log' = <<>>
    /\ last' = Op("clear")
    /\ UNCHANGED <<width, height, background_color, texture,
                   panicked, rendered, call>>

Clear ==
    /\ panicked = "none"
    /\ image' = clear(width, height, background_color, star_field)
    /\ cleared' = [done |-> TRUE, background |-> background_color]
    /\ writes' = 0
    /\ log' = <<>>
    /\ last' = Op("clear")
    /\ UNCHANGED <<width, height, background_color, texture, star_field,
                   panicked, rendered, call>>

Point(x, y, c) ==
    /\ panicked = "none"
    /\ writes < MaxWrites
    /\ image' = point(image, width, height, x, y, c)
    /\ panicked' = point_panic(x, y, width, height)
    /\ writes' = writes + 1
    /\ last' = [op |-> "point", x |-> x, y |-> y, color |-> c]
    /\ UNCHANGED <<width, height, background_color, texture, star_field,
                   cleared, log, rendered, call>>

\* update_texture skipping the upload when no texture is bound, as draw does
update_texture_panic_lenient(tex, w, h) ==
    IF tex.some
    THEN IF (w * h) * 4 = (tex.width * tex.height) * 4 THEN "none" ELSE "unwrap"
    ELSE "none"

\* the panic, if any, raised by update_texture: the texture is missing, or
\* Texture2D::update_texture rejects a buffer of the wrong length
update_texture_panic(tex, w, h) ==
    IF tex.some
    THEN IF (w * h) * 4 = (tex.width * tex.height) * 4 THEN "none" ELSE "unwrap"
    ELSE "uninitialized"

UpdateTexture ==
    /\ panicked = "none"
    /\ panicked' = update_texture_panic(texture, width, height)
    /\ last' = Op("update_texture")
    /\ UNCHANGED <<fbvars, cleared, writes, log, rendered, call>>

Draw ==
    /\ panicked = "none"
    /\ last' = Op("draw")
    /\ UNCHANGED <<fbvars, panicked, cleared, writes, log, rendered, call>>

NextFB ==
    \/ \E c \in BgColors : SetBackgroundColor(c)
    \/ \E ok \in BOOLEAN : InitTexture(ok)
    \/ Clear
    \/ \E p \in PointCoords(width, height), c \in PointColors :
          Point(p[1], p[2], c)
    \/ UpdateTexture
    \/ Draw

SpecFB == InitFB /\ [][NextFB]_vars

----------------------------------------------------------------------------
(* Vertex shader (src/src/shaders.rs) *)

\* Vector3 is <<x, y, z>>, Vector4 is <<x, y, z, w>>, of rationals.
\* A Matrix is the record of its sixteen fields m0 .. m15.

\* new_matrix4: sixteen values in row-major order, stored column-major
new_matrix4(r0c0, r0c1, r0c2, r0c3, r1c0, r1c1, r1c2, r1c3, r2c0, r2c1, r2c2, r2c3, r3c0, r3c1, r3c2, r3c3) ==
    [m0 |-> r0c0, m1 |-> r1c0, m2 |-> r2c0, m3 |-> r3c0,
     m4 |-> r0c1, m5 |-> r1c1, m6 |-> r2c1, m7 |-> r3c1,
     m8 |-> r0c2, m9 |-> r1c2, m10 |-> r2c2, m11 |-> r3c2,
     m12 |-> r0c3, m13 |-> r1c3, m14 |-> r2c3, m15 |-> r3c3]

multiply_matrix_vector4(m, v) ==
    <<RAdd(RAdd(RMul(m.m0, v[1]), RMul(m.m4, v[2])),
           RAdd(RMul(m.m8, v[3]), RMul(m.m12, v[4]))),
      RAdd(RAdd(RMul(m.m1, v[1]), RMul(m.m5, v[2])),
           RAdd(RMul(m.m9, v[3]), RMul(m.m13, v[4]))),
      RAdd(RAdd(RMul(m.m2, v[1]), RMul(m.m6, v[2])),
           RAdd(RMul(m.m10, v[3]), RMul(m.m14, v[4]))),
      RAdd(RAdd(RMul(m.m3, v[1]), RMul(m.m7, v[2])),
           RAdd(RMul(m.m11, v[3]), RMul(m.m15, v[4])))>>

\* perspective_divide leaving z undivided
perspective_divide_xy(t) ==
    IF t[4] # Zero
    THEN <<RDiv(t[1], t[4]), RDiv(t[2], t[4]), t[3]>>
    ELSE <<t[1], t[2], t[3]>>

\* the perspective division of vertex_shader
perspective_divide(t) ==
    IF t[4] # Zero
    THEN <<RDiv(t[1], t[4]), RDiv(t[2], t[4]), RDiv(t[3], t[4])>>
    ELSE <<t[1], t[2], t[3]>>

\* z_factor = z * 0.02; transformed_position = (x, y + z_factor * 5.0, z)
isometric_shift(p) ==
    LET z_factor == RMul(p[3], R(2, 100))
    IN  <<p[1], RAdd(p[2], RMul(z_factor, I(5))), p[3]>>

vertex_shader_overwriting(vertex, uniforms) ==
    LET position_vec4 == <<vertex.position[1], vertex.position[2],
                           vertex.position[3], I(1)>>
        transformed_vec4 ==
            multiply_matrix_vector4(uniforms.model_matrix, position_vec4)
        transformed_position_3d == perspective_divide(transformed_vec4)
    IN  [position |-> isometric_shift(transformed_position_3d),
         normal |-> vertex.normal,
         tex_coords |-> vertex.tex_coords,
         color |-> vertex.color,
         transformed_position |-> isometric_shift(transformed_position_3d),
         transformed_normal |-> vertex.normal]

vertex_shader(vertex, uniforms) ==
    LET position_vec4 == <<vertex.position[1], vertex.position[2],
                           vertex.position[3], I(1)>>
        transformed_vec4 ==
            multiply_matrix_vector4(uniforms.model_matrix, position_vec4)
        transformed_position_3d == perspective_divide(transformed_vec4)
    IN  [position |-> vertex.position,
         normal |-> vertex.normal,
         tex_coords |-> vertex.tex_coords,
         color |-> vertex.color,
         transformed_position |-> isometric_shift(transformed_position_3d),
         transformed_normal |-> vertex.normal]

----------------------------------------------------------------------------
(* Rasterizer (src/src/triangle.rs) *)

\* the nested function sign of triangle
sign(p1, p2, p3) ==
    RSub(RMul(RSub(p1[1], p3[1]), RSub(p2[2], p3[2])),
         RMul(RSub(p2[1], p3[1]), RSub(p1[2], p3[2])))

\* the bounding box rounded towards the inside of the triangle
bounding_box_inner(p1, p2, p3) ==
    <<RCeil(RMin(RMin(p1[1], p2[1]), p3[1])),
      RFloor(RMax(RMax(p1[1], p2[1]), p3[1])),
      RCeil(RMin(RMin(p1[2], p2[2]), p3[2])),
      RFloor(RMax(RMax(p1[2], p2[2]), p3[2]))>>

\* the bounding box <<min_x, max_x, min_y, max_y>> of triangle
bounding_box(p1, p2, p3) ==
    <<RFloor(RMin(RMin(p1[1], p2[1]), p3[1])),
      RCeil(RMax(RMax(p1[1], p2[1]), p3[1])),
      RFloor(RMin(RMin(p1[2], p2[2]), p3[2])),
      RCeil(RMax(RMax(p1[2], p2[2]), p3[2]))>>

\* inside rejecting the pixels on an edge
inside_strict(d1, d2, d3) ==
    \/ (RLt(d1, Zero) /\ RLt(d2, Zero) /\ RLt(d3, Zero))
    \/ (RLt(Zero, d1) /\ RLt(Zero, d2) /\ RLt(Zero, d3))

\* inside accepting one winding only
inside_one_winding(d1, d2, d3) ==
    ~(RLt(d1, Zero) \/ RLt(d2, Zero) \/ RLt(d3, Zero))

\* inside accepting only the pixels with no positive edge value
inside_no_positive(d1, d2, d3) ==
    ~(RLt(Zero, d1) \/ RLt(Zero, d2) \/ RLt(Zero, d3))

\* !(has_neg && has_pos) for the three edge values
inside(d1, d2, d3) ==
    LET has_neg == RLt(d1, Zero) \/ RLt(d2, Zero) \/ RLt(d3, Zero)
        has_pos == RLt(Zero, d1) \/ RLt(Zero, d2) \/ RLt(Zero, d3)
    IN  ~(has_neg /\ has_pos)

\* interpolate_depth weighting by the edge values themselves
interpolate_depth_signed(p1, p2, p3, d1, d2, d3) ==
    LET total == RMax(RAdd(RAdd(RAbs(d1), RAbs(d2)), RAbs(d3)), R(1, 10000))
        w1 == RDiv(d1, total)
        w2 == RDiv(d2, total)
        w3 == RDiv(d3, total)
    IN  RAdd(RAdd(RMul(p1[3], w1), RMul(p2[3], w2)), RMul(p3[3], w3))

\* the depth given to the fragment at a pixel with edge values d1, d2, d3
interpolate_depth(p1, p2, p3, d1, d2, d3) ==
    LET total == RMax(RAdd(RAdd(RAbs(d1), RAbs(d2)), RAbs(d3)), R(1, 10000))
        w1 == RDiv(RAbs(d1), total)
        w2 == RDiv(RAbs(d2), total)
        w3 == RDiv(RAbs(d3), total)
    IN  RAdd(RAdd(RMul(p1[3], w1), RMul(p2[3], w2)), RMul(p3[3], w3))

\* scan_order running one row too far and wrapping to the first row
scan_order_wrapped(box) ==
    LET cols == box[2] - box[1] + 1
        rows == box[4] - box[3] + 1
    IN  IF cols <= 0 \/ rows <= 0 THEN <<>>
        ELSE [k \in 1 .. cols * (rows + 1) |->
                <<box[1] + ((k - 1) % cols),
                  box[3] + (((k - 1) \div cols) % rows)>>]

\* the pixels `for y in min_y..=max_y { for x in min_x..=max_x` visits, in
\* the order it visits them
scan_order(box) ==
    LET cols == box[2] - box[1] + 1
        rows == box[4] - box[3] + 1
    IN  IF cols <= 0 \/ rows <= 0 THEN <<>>
        ELSE [k \in 1 .. cols * rows |->
                <<box[1] + ((k - 1) % cols), box[3] + ((k - 1) \div cols)>>]

\* triangle(v1, v2, v3): the fragments, in the order they are pushed
triangle(v1, v2, v3) ==
    LET p1 == v1.transformed_position
        p2 == v2.transformed_position
        p3 == v3.transformed_position
        d1(px) == sign(<<I(px[1]), I(px[2]), Zero>>, p1, p2)
        d2(px) == sign(<<I(px[1]), I(px[2]), Zero>>, p2, p3)
        d3(px) == sign(<<I(px[1]), I(px[2]), Zero>>, p3, p1)
        keep(px) == inside(d1(px), d2(px), d3(px))
        fragment(px) ==
            [position |-> px,
             color |-> <<ColorDen, ColorDen, ColorDen>>,
             depth |-> interpolate_depth(p1, p2, p3, d1(px), d2(px), d3(px))]
    IN  Then(SelectSeq(scan_order(bounding_box(p1, p2, p3)), keep),
             LAMBDA hits : [k \in 1 .. Len(hits) |-> fragment(hits[k])])

----------------------------------------------------------------------------
(* Fragment shaders (src/src/shaders.rs) *)

\* The layers of the shaders are built from sin, atan2, asin and fbm, which
\* have no integer model.  procedural_color stands for the layered result:
\* a fixed function of the values the shader reads (which shader it is, two
\* or three coordinates, the time), different for different shaders.
procedural_color(shader, a, b, c, time) ==
    LET mix == 17 * shader + 29 * time
                 + 7 * (a[1] + a[2]) + 11 * (b[1] + b[2]) + 13 * (c[1] + c[2])
    IN  <<mix % (ColorDen + 1), (3 * mix + 5) % (ColorDen + 1),
          (5 * mix + 1) % (ColorDen + 1)>>

\* the guard testing len <= 0.0 instead of len < 0.001
too_short_only_zero(pos) ==
    LET sq == RAdd(RAdd(RMul(pos[1], pos[1]), RMul(pos[2], pos[2])),
                   RMul(pos[3], pos[3]))
    IN  sq[1] = 0

\* len < 0.001 for len = sqrt(x*x + y*y + z*z), i.e. x*x + y*y + z*z < 10^-6
too_short(pos) ==
    LET sq == RAdd(RAdd(RMul(pos[1], pos[1]), RMul(pos[2], pos[2])),
                   RMul(pos[3], pos[3]))
    IN  sq[1] = 0 \/ (sq[2] - 1) \div 1000000 >= sq[1]

\* the common shape of the seven shaders that derive spherical UV
\* coordinates from vertex.transformed_position
spherical_shader(shader, vertex, time) ==
    LET pos == vertex.transformed_position
    IN  IF too_short(pos) THEN <<0, 0, 0>>
        ELSE procedural_color(shader, pos[1], pos[2], pos[3], time)

sun_shader(fragment, vertex, time) == spherical_shader(0, vertex, time)

earth_shader(fragment, vertex, time) == spherical_shader(1, vertex, time)

gas_giant_shader(fragment, vertex, time) == spherical_shader(2, vertex, time)

moon_shader(fragment, vertex, time) == spherical_shader(3, vertex, time)

\* reads vertex.tex_coords and time only
ring_shader(fragment, vertex, time) ==
    procedural_color(4, vertex.tex_coords[1], vertex.tex_coords[2], Zero, time)

neptune_shader(fragment, vertex, time) == spherical_shader(5, vertex, time)

uranus_shader(fragment, vertex, time) == spherical_shader(6, vertex, time)

venus_shader(fragment, vertex, time) == spherical_shader(7, vertex, time)

\* get_planet_color keeping a count of the renders since the last clear and
\* shading with the time advanced by it
get_planet_color_counting(fragment, vertex, time, planet_type) ==
    CASE planet_type = 0 -> sun_shader(fragment, vertex, time + writes)
      [] planet_type = 1 -> earth_shader(fragment, vertex, time + writes)
      [] planet_type = 2 -> gas_giant_shader(fragment, vertex, time + writes)
      [] planet_type = 3 -> moon_shader(fragment, vertex, time + writes)
      [] planet_type = 4 -> ring_shader(fragment, vertex, time + writes)
      [] planet_type = 5 -> neptune_shader(fragment, vertex, time + writes)
      [] planet_type = 6 -> uranus_shader(fragment, vertex, time + writes)
      [] planet_type = 7 -> venus_shader(fragment, vertex, time + writes)
      [] OTHER -> <<ColorDen, ColorDen, ColorDen>>

\* the arms for 5 and 6 exchanged
get_planet_color_5_6_exchanged(fragment, vertex, time, planet_type) ==
    CASE planet_type = 0 -> sun_shader(fragment, vertex, time)
      [] planet_type = 1 -> earth_shader(fragment, vertex, time)
      [] planet_type = 2 -> gas_giant_shader(fragment, vertex, time)
      [] planet_type = 3 -> moon_shader(fragment, vertex, time)
      [] planet_type = 4 -> ring_shader(fragment, vertex, time)
      [] planet_type = 5 -> uranus_shader(fragment, vertex, time)
      [] planet_type = 6 -> neptune_shader(fragment, vertex, time)
      [] planet_type = 7 -> venus_shader(fragment, vertex, time)
      [] OTHER -> <<ColorDen, ColorDen, ColorDen>>

get_planet_color(fragment, vertex, time, planet_type) ==
    CASE planet_type = 0 -> sun_shader(fragment, vertex, time)
      [] planet_type = 1 -> earth_shader(fragment, vertex, time)
      [] planet_type = 2 -> gas_giant_shader(fragment, vertex, time)
      [] planet_type = 3 -> moon_shader(fragment, vertex, time)
      [] planet_type = 4 -> ring_shader(fragment, vertex, time)
      [] planet_type = 5 -> neptune_shader(fragment, vertex, time)
      [] planet_type = 6 -> uranus_shader(fragment, vertex, time)
      [] planet_type = 7 -> venus_shader(fragment, vertex, time)
      [] OTHER -> <<ColorDen, ColorDen, ColorDen>>

----------------------------------------------------------------------------
(* render (src/src/main.rs) *)

\* Vertex Shader Stage
vertex_stage(vertex_array, uniforms) ==
    [i \in 1 .. Len(vertex_array) |-> vertex_shader(vertex_array[i], uniforms)]

\* assembly_starts testing `i + 3 < len`
assembly_starts_short(len) ==
    SelectSeq([j \in 1 .. (len + 2) \div 3 |-> 3 * (j - 1)],
              LAMBDA i : i + 3 < len)

\* the values of i in `for i in (0..len).step_by(3)` that pass `i + 2 < len`
assembly_starts(len) ==
    SelectSeq([j \in 1 .. (len + 2) \div 3 |-> 3 * (j - 1)],
              LAMBDA i : i + 2 < len)

\* Primitive Assembly Stage
primitive_assembly(transformed_vertices) ==
    Then(assembly_starts(Len(transformed_vertices)),
         LAMBDA starts :
            [k \in 1 .. Len(starts) |->
                <<transformed_vertices[starts[k] + 1],
                  transformed_vertices[starts[k] + 2],
                  transformed_vertices[starts[k] + 3]>>])

\* Rasterization Stage: fragments.extend(triangle(..)) for triangles[k ..]
RECURSIVE rasterize(_, _)
rasterize(triangles, k) ==
    IF k > Len(triangles) THEN <<>>
    ELSE triangle(triangles[k][1], triangles[k][2], triangles[k][3])
            \o rasterize(triangles, k + 1)

\* the temporary vertex built at the fragment position
temp_vertex(fragment) ==
    [position |-> <<I(fragment.position[1]), I(fragment.position[2]), Zero>>,
     normal |-> <<Zero, I(1), Zero>>,
     tex_coords |-> <<Zero, Zero>>,
     color |-> fragment.color,
     transformed_position |->
        <<I(fragment.position[1]), I(fragment.position[2]), fragment.depth>>,
     transformed_normal |-> <<Zero, I(1), Zero>>]

\* the arguments <<x, y, color>> of the point call made for each fragment
point_calls(fragments, uniforms) ==
    [k \in 1 .. Len(fragments) |->
        <<fragments[k].position[1], fragments[k].position[2],
          get_planet_color(fragments[k], temp_vertex(fragments[k]),
                           uniforms.time, uniforms.planet_type)>>]

\* fragment_stage making the calls in reverse order
RECURSIVE fragment_stage_reversed(_, _, _, _, _, _)
fragment_stage_reversed(img, w, h, calls, lo, hi) ==
    IF lo > hi THEN img
    ELSE IF lo = hi
         THEN point(img, w, h, calls[lo][1], calls[lo][2], calls[lo][3])
    ELSE LET mid == (lo + hi) \div 2
         IN  Then(fragment_stage_reversed(img, w, h, calls, mid + 1, hi),
                  LAMBDA half :
                     fragment_stage_reversed(half, w, h, calls, lo, mid))

\* Fragment Processing Stage: the point calls calls[lo .. hi] in order,
\* split in halves to keep the evaluation shallow
RECURSIVE fragment_stage(_, _, _, _, _, _)
fragment_stage(img, w, h, calls, lo, hi) ==
    IF lo > hi THEN img
    ELSE IF lo = hi
         THEN point(img, w, h, calls[lo][1], calls[lo][2], calls[lo][3])
    ELSE LET mid == (lo + hi) \div 2
         IN  Then(fragment_stage(img, w, h, calls, lo, mid),
                  LAMBDA half : fragment_stage(half, w, h, calls, mid + 1, hi))

\* render shading every fragment with the tex_coords of the first vertex of
\* the vertex array instead of the temporary vertex's Vector2::zero()
render_with_mesh_tex_coords(img, w, h, uniforms, vertex_array) ==
    Then(vertex_stage(vertex_array, uniforms), LAMBDA transformed_vertices :
    Then(primitive_assembly(transformed_vertices), LAMBDA triangles :
    Then(rasterize(triangles, 1), LAMBDA fragments :
    Then([k \in 1 .. Len(fragments) |->
             <<fragments[k].position[1], fragments[k].position[2],
               get_planet_color(fragments[k],
                                [temp_vertex(fragments[k]) EXCEPT
                                    !.tex_coords =
                                       transformed_vertices[1].tex_coords],
                                uniforms.time, uniforms.planet_type)>>],
         LAMBDA calls :
        [vertex_array |-> vertex_array,
         transformed |-> transformed_vertices,
         triangles |-> triangles,
         fragments |-> fragments,
         calls |-> calls,
         image |-> fragment_stage(img, w, h, calls, 1, Len(calls))]))))

\* every stage of render(framebuffer, uniforms, vertex_array)
render(img, w, h, uniforms, vertex_array) ==
    Then(vertex_stage(vertex_array, uniforms), LAMBDA transformed_vertices :
    Then(primitive_assembly(transformed_vertices), LAMBDA triangles :
    Then(rasterize(triangles, 1), LAMBDA fragments :
    Then(point_calls(fragments, uniforms), LAMBDA calls :
        [vertex_array |-> vertex_array,
         transformed |-> transformed_vertices,
         triangles |-> triangles,
         fragments |-> fragments,
         calls |-> calls,
         image |-> fragment_stage(img, w, h, calls, 1, Len(calls))]))))

----------------------------------------------------------------------------
(* Drawing bodies: clear and render on the framebuffer main constructs *)

\* vertex i of a vertex array whose first triangle has index first: triangle
\* k is a right triangle with its right angle at the origin, legs of length
\* 4 and depth 0 for even k, legs of length 2 and depth 1 for odd k
Vert(i, first) ==
    LET k == first + ((i - 1) \div 3)
        j == (i - 1) % 3
        leg == IF k % 2 = 0 THEN 4 ELSE 2
        z == I(k % 2)
        pos == IF j = 0 THEN <<Zero, Zero, z>>
               ELSE IF j = 1 THEN <<I(leg), Zero, z>>
               ELSE <<Zero, I(leg), z>>
        tex == IF j = 0 THEN <<Zero, Zero>>
               ELSE IF j = 1 THEN <<I(1), Zero>>
               ELSE <<I(1), I(1)>>
    IN  [position |-> pos,
         normal |-> <<Zero, I(1), Zero>>,
         tex_coords |-> tex,
         color |-> <<ColorDen, ColorDen, ColorDen>>,
         transformed_position |-> pos,
         transformed_normal |-> <<Zero, I(1), Zero>>]

Mesh(first, n) == [i \in 1 .. n |-> Vert(i, first)]

Identity ==
    new_matrix4(I(1), Zero, Zero, Zero,  Zero, I(1), Zero, Zero,
                Zero, Zero, I(1), Zero,  Zero, Zero, Zero, I(1))

\* translation by (1, -1, 0)
Shift ==
    new_matrix4(I(1), Zero, Zero, I(1),  Zero, I(1), Zero, I(-1),
                Zero, Zero, I(1), Zero,  Zero, Zero, Zero, I(1))

Times == {0, 1}

\* the vertex arrays render is given: the large triangle, the small
\* triangle, and both followed by one trailing vertex
RenderMeshes == {Mesh(0, 3), Mesh(1, 3), Mesh(0, 7)}

RenderMatrices == {Identity, Shift}

\* a spherical shader and the ring shader
RenderTypes == {0, 4}

\* at most MaxRenders render calls between two clear calls
MaxRenders == 2

\* main, lines 154-158: new, set_background_color, init_texture
InitRender ==
    /\ width = 4
    /\ height = 3
    /\ image = Fill(4, 3, BLACK)
    /\ background_color = <<1, 1, 5>>
    /\ texture = [some |-> TRUE, width |-> 4, height |-> 3]
    /\ star_field = StarTable[<<4, 3>>]
    /\ panicked = "none"
    /\ cleared = [done |-> FALSE, background |-> <<0, 0, 0>>]
    /\ last = Op("init_texture")
    /\ writes = 0
    /\ log = <<>>
    /\ rendered = NoRender
    /\ call = NoCall

Render(uniforms, vertex_array) ==
    /\ panicked = "none"
    /\ writes < MaxRenders
    /\ \E r \in {render(image, width, height, uniforms, vertex_array)} :
           /\ image' = r.image
           /\ rendered' = [vertex_array |-> r.vertex_array,
                           transformed |-> r.transformed,
                           triangles |-> r.triangles,
                           fragments |-> r.fragments,
                           calls |-> r.calls]
           /\ log' = log \o [k \in 1 .. Len(r.calls) |->
                               <<r.calls[k][1], r.calls[k][2], r.calls[k][3],
                                 r.fragments[k].depth>>]
    /\ writes' = writes + 1
    /\ last' = Op("render")
    /\ UNCHANGED <<width, height, background_color, texture, star_field,
                   panicked, cleared, call>>

NextRender ==
    \/ Clear
    \/ \E m \in RenderMatrices, t \in Times, b \in RenderTypes,
          va \in RenderMeshes :
          Render([model_matrix |-> m, time |-> t, planet_type |-> b], va)

SpecRender == InitRender /\ [][NextRender]_vars

----------------------------------------------------------------------------
(* The pure stages, applied to inputs drawn at the start *)

\* the framebuffer and the bookkeeping, untouched by a pure call
Idle ==
    /\ new(4, 3)
    /\ panicked = "none"
    /\ cleared = [done |-> FALSE, background |-> <<0, 0, 0>>]
    /\ last = Op("new")
    /\ writes = 0
    /\ log = <<>>
    /\ rendered = NoRender

\* scale by 2, then translation by (1, -1, 3)
Affine ==
    new_matrix4(I(2), Zero, Zero, I(1),  Zero, I(2), Zero, I(-1),
                Zero, Zero, I(2), I(3),  Zero, Zero, Zero, I(1))

\* w = 2 for every vertex
Halve ==
    new_matrix4(I(1), Zero, Zero, Zero,  Zero, I(1), Zero, Zero,
                Zero, Zero, I(1), Zero,  Zero, Zero, Zero, I(2))

\* w = x: zero for the vertices on the plane x = 0
WFromX ==
    new_matrix4(I(1), Zero, Zero, Zero,  Zero, I(1), Zero, I(1),
                Zero, Zero, I(1), I(2),  I(1), Zero, Zero, Zero)

\* w = z + 1
Perspective ==
    new_matrix4(I(1), Zero, Zero, Zero,  Zero, I(1), Zero, Zero,
                Zero, Zero, I(1), Zero,  Zero, Zero, I(1), I(1))

Matrices == {Identity, Shift, Affine, Halve, WFromX, Perspective}

VertexCoords == {I(-2), Zero, R(1, 2), I(3)}

\* an untransformed vertex at pos
VertexAt(pos) ==
    [position |-> pos,
     normal |-> <<Zero, I(1), Zero>>,
     tex_coords |-> <<R(1, 2), I(1)>>,
     color |-> <<ColorDen, 50, 0>>,
     transformed_position |-> pos,
     transformed_normal |-> <<Zero, I(1), Zero>>]

InitVS ==
    /\ Idle
    /\ \E x \in VertexCoords, y \in VertexCoords, z \in VertexCoords,
          m \in Matrices :
          call = [fn |-> "input",
                  vertex |-> VertexAt(<<x, y, z>>),
                  uniforms |-> [model_matrix |-> m, time |-> 0,
                                planet_type |-> 0]]

CallVertexShader ==
    /\ call.fn = "input"
    /\ call' = [fn |-> "vertex_shader",
                vertex |-> call.vertex,
                uniforms |-> call.uniforms,
                result |-> vertex_shader(call.vertex, call.uniforms)]
    /\ UNCHANGED <<fbvars, panicked, cleared, last, writes, log, rendered>>

NextVS == CallVertexShader

SpecVS == InitVS /\ [][NextVS]_vars

\* screen coordinates of the triangles handed to triangle: integers, and
\* fractions on both sides of 0
TriCoords == {R(-3, 2), Zero, R(1, 2), I(2), I(4)}

\* depths of the three vertices
TriDepths == {<<Zero, I(1), I(2)>>, <<I(3), I(3), I(-1)>>}

\* a transformed vertex at screen position <<x, y>> and depth z
Transformed(x, y, z) ==
    [position |-> <<Zero, Zero, Zero>>,
     normal |-> <<Zero, I(1), Zero>>,
     tex_coords |-> <<Zero, Zero>>,
     color |-> <<ColorDen, ColorDen, ColorDen>>,
     transformed_position |-> <<x, y, z>>,
     transformed_normal |-> <<Zero, I(1), Zero>>]

InitTri ==
    /\ Idle
    /\ \E x1 \in TriCoords, y1 \in TriCoords, x2 \in TriCoords,
          y2 \in TriCoords, x3 \in TriCoords, y3 \in TriCoords,
          zs \in TriDepths :
          call = [fn |-> "input",
                  v1 |-> Transformed(x1, y1, zs[1]),
                  v2 |-> Transformed(x2, y2, zs[2]),
                  v3 |-> Transformed(x3, y3, zs[3])]

CallTriangle ==
    /\ call.fn = "input"
    /\ call' = [fn |-> "triangle",
                v1 |-> call.v1, v2 |-> call.v2, v3 |-> call.v3,
                result |-> triangle(call.v1, call.v2, call.v3)]
    /\ UNCHANGED <<fbvars, panicked, cleared, last, writes, log, rendered>>

NextTri == CallTriangle

SpecTri == InitTri /\ [][NextTri]_vars

\* vertex arrays of 0 .. MaxVerts vertices
MaxVerts == 7

InitAsm ==
    /\ Idle
    /\ \E n \in 0 .. MaxVerts, first \in {0, 1}, m \in Matrices :
          call = [fn |-> "input",
                  vertex_array |-> Mesh(first, n),
                  uniforms |-> [model_matrix |-> m, time |-> 0,
                                planet_type |-> 0]]

\* the first two stages of render
CallAssembly ==
    /\ call.fn = "input"
    /\ \E tv \in {vertex_stage(call.vertex_array, call.uniforms)} :
          call' = [fn |-> "primitive_assembly",
                   transformed_vertices |-> tv,
                   result |-> primitive_assembly(tv)]
    /\ UNCHANGED <<fbvars, panicked, cleared, last, writes, log, rendered>>

NextAsm == CallAssembly

SpecAsm == InitAsm /\ [][NextAsm]_vars

----------------------------------------------------------------------------
(* Properties of the framebuffer, checked under SpecFB *)

\* trunc(clamp(c, 0, 1) * 255) for the channel c / ColorDen
ExpectedByte(c) ==
    IF c <= 0 THEN 0
    ELSE IF c >= ColorDen THEN 255
    ELSE (c * 255) \div ColorDen

ExpectedPixel(c) ==
    <<ExpectedByte(c[1]), ExpectedByte(c[2]), ExpectedByte(c[3]), 255>>

\* the step is a call of point with a position outside the buffer
PointOutsideStep ==
    /\ last'.op = "point"
    /\ (last'.x < 0 \/ last'.y < 0 \/ last'.x >= width \/ last'.y >= height)

\* the step is a call of point with a position inside the buffer
PointInsideStep ==
    /\ last'.op = "point"
    /\ 0 <= last'.x /\ last'.x < width
    /\ 0 <= last'.y /\ last'.y < height

\* C1: a call point(x, y, c) with x < 0, y < 0, x >= width or y >= height
\* leaves every pixel, background_color, star_field and the texture binding
\* as they were, and does not panic.
C1_OutOfRangePointIsDropped ==
    [][PointOutsideStep =>
          /\ image' = image
          /\ background_color' = background_color
          /\ star_field' = star_field
          /\ texture' = texture
          /\ panicked' = "none"]_vars

\* a point call beyond the right border has just returned, as the second
\* call after a clear
C1_Witness ==
    /\ last.op = "point"
    /\ last.x >= width
    /\ cleared.done
    /\ writes = 2
    /\ panicked = "none"

\* C2: a call point(x, y, c) with 0 <= x < width and 0 <= y < height changes
\* pixel (x, y) and no other; the new pixel has the channels
\* trunc(clamp(c, 0, 1) * 255), each in 0 .. 255, and alpha 255.
C2_InRangePointWritesOnePixel ==
    [][PointInsideStep =>
          /\ DOMAIN image' = DOMAIN image
          /\ \A p \in DOMAIN image :
                p # <<last'.x, last'.y>> => image'[p] = image[p]
          /\ image'[<<last'.x, last'.y>>] = ExpectedPixel(last'.color)
          /\ \A i \in 1 .. 4 : image'[<<last'.x, last'.y>>][i] \in 0 .. 255]_vars

\* a colour with channels 1.5, -0.5 and 0.5 has just been written inside
\* the buffer: the pixel holds (255, 0, 127, 255)
C2_Witness ==
    /\ last.op = "point"
    /\ 0 <= last.x /\ last.x < width /\ 0 <= last.y /\ last.y < height
    /\ last.color = <<150, -50, 50>>
    /\ image[<<last.x, last.y>>] = <<255, 0, 127, 255>>

\* star i of stars covers pixel p: its core, or an arm of a bright star
Covers(stars, i, p) ==
    \/ (stars[i][1] = p[1] /\ stars[i][2] = p[2])
    \/ /\ stars[i][3] > 80
       /\ Abs(stars[i][1] - p[1]) + Abs(stars[i][2] - p[2]) = 1

\* what the last star covering each pixel leaves there, for each size:
\* <<"background">>, or the kind of star pixel and the star's brightness
StarLayer ==
    [d \in Dims |-> [p \in Pixels(d[1], d[2]) |->
        LET stars == StarTable[d]
            cov == {i \in 1 .. Len(stars) : Covers(stars, i, p)}
            top == CHOOSE i \in cov : \A j \in cov : j <= i
        IN  IF cov = {} THEN <<"background", 0>>
            ELSE IF stars[top][1] = p[1] /\ stars[top][2] = p[2]
                 THEN <<"core", stars[top][3]>>
            ELSE <<"arm", stars[top][3]>>]]

\* the pixel clear leaves at p
ExpectedCleared(d, bg, p) ==
    LET kind == StarLayer[d][p][1]
        b == StarLayer[d][p][2]
    IN  IF kind = "background" THEN ExpectedPixel(bg)
        ELSE IF kind = "core"
             THEN <<(255 * b) \div 100, (255 * b) \div 100,
                    (255 * b * 9) \div 1000, 255>>
        ELSE <<(255 * b) \div 200, (255 * b) \div 200,
               (255 * b * 45) \div 10000, 255>>

\* C3 as stated: after clear() every pixel equals background_color; in the
\* 10 x 10 framebuffer with background (0, 0, 0) the buffer is all black.
C3_ClearGivesBackgroundOnly ==
    (last.op = "clear" /\ width = 10 /\ height = 10
        /\ background_color = <<0, 0, 0>>)
    => \A p \in DOMAIN image : image[p] = BLACK

\* C3 amended: after clear() every pixel covered by no star equals
\* background_color and every other pixel holds the colour of the last star
\* of star_field covering it (core colour, or arm colour for an arm of a
\* star brighter than 0.8), whatever the buffer held before; in the 10 x 10
\* framebuffer point(5, 5, (1, 0, 0)) then changes pixel (5, 5) alone, to
\* pure red.
C3_ClearGivesBackgroundAndStars ==
    /\ last.op = "clear" =>
          /\ star_field = StarTable[<<width, height>>]
          /\ DOMAIN image = Pixels(width, height)
          /\ \A p \in Pixels(width, height) :
                image[p] = ExpectedCleared(<<width, height>>,
                                           background_color, p)
    /\ (/\ width = 10 /\ height = 10
        /\ cleared.done /\ cleared.background = <<0, 0, 0>>
        /\ writes = 1
        /\ last = [op |-> "point", x |-> 5, y |-> 5,
                   color |-> <<100, 0, 0>>]) =>
          /\ image[<<5, 5>>] = <<255, 0, 0, 255>>
          /\ \A p \in Pixels(10, 10) :
                p # <<5, 5>> =>
                   image[p] = ExpectedCleared(<<10, 10>>, <<0, 0, 0>>, p)

\* the 10 x 10 framebuffer with background (0, 0, 0), cleared and then
\* written at (5, 5) with pure red: the first pixel still shows a star
C3_Witness ==
    /\ width = 10 /\ height = 10
    /\ cleared.done /\ cleared.background = <<0, 0, 0>>
    /\ writes = 1
    /\ last = [op |-> "point", x |-> 5, y |-> 5, color |-> <<100, 0, 0>>]
    /\ image[<<5, 5>>] = <<255, 0, 0, 255>>
    /\ image[<<0, 0>>] # BLACK

\* C5: update_texture in a state where no texture is bound panics; once
\* init_texture has bound the texture it stays bound, and update_texture
\* then does not panic, whatever was called in between.
C5_ExportNeedsTexture ==
    [][/\ (last'.op = "update_texture" /\ ~texture.some)
             => panicked' = "uninitialized"
       /\ (last'.op = "update_texture" /\ texture.some)
             => panicked' = "none"
       /\ (last'.op = "init_texture" /\ panicked' = "none") => texture'.some
       /\ texture.some => texture'.some
       /\ (~texture.some /\ texture'.some) => last'.op = "init_texture"]_vars

\* update_texture has just been called on a cleared and written buffer
\* whose texture was never bound
C5_Witness ==
    /\ last.op = "update_texture"
    /\ ~texture.some
    /\ panicked = "uninitialized"
    /\ cleared.done
    /\ writes >= 1

----------------------------------------------------------------------------
(* Compositing, checked under SpecRender *)

\* the entries of the log that are point calls at pixel p
WritesAt(p) == {k \in 1 .. Len(log) : log[k][1] = p[1] /\ log[k][2] = p[2]}

\* the calls of the latest render that are point calls at pixel p
CallsAt(p) ==
    {k \in 1 .. Len(rendered.calls) :
        rendered.calls[k][1] = p[1] /\ rendered.calls[k][2] = p[2]}

Latest(ks) == CHOOSE k \in ks : \A j \in ks : j <= k

\* C4: after a clear followed by render calls, each pixel holds the colour
\* of the last point call made at it since the clear (what clear left there
\* if there was none), whatever the depths of the fragments; so every pixel
\* covered by a fragment of the body drawn last shows that body's colour.
C4_LastWriteWins ==
    /\ cleared.done =>
          \A p \in Pixels(width, height) :
             image[p] = IF WritesAt(p) = {}
                        THEN ExpectedCleared(<<width, height>>,
                                             cleared.background, p)
                        ELSE ExpectedPixel(log[Latest(WritesAt(p))][3])
    /\ last.op = "render" =>
          \A k \in 1 .. Len(rendered.fragments) :
             LET p == rendered.fragments[k].position
             IN  p \in Pixels(width, height) =>
                    image[p] = ExpectedPixel(rendered.calls[Latest(CallsAt(p))][3])

\* two bodies were drawn since the clear; every pixel of the second lies in
\* the footprint of the first, and at one of them the second body's
\* fragment is deeper than the first's, has another colour, and is shown
C4_Witness ==
    /\ cleared.done
    /\ writes = 2
    /\ last.op = "render"
    /\ LET first == Len(log) - Len(rendered.calls)
       IN  /\ first > 0
           /\ Len(rendered.calls) > 0
           /\ \A k2 \in first + 1 .. Len(log) :
                 <<log[k2][1], log[k2][2]>> \in Pixels(width, height) =>
                    \E k1 \in 1 .. first :
                       log[k1][1] = log[k2][1] /\ log[k1][2] = log[k2][2]
           /\ \E k1 \in 1 .. first, k2 \in first + 1 .. Len(log) :
                 /\ <<log[k2][1], log[k2][2]>> \in Pixels(width, height)
                 /\ log[k1][1] = log[k2][1] /\ log[k1][2] = log[k2][2]
                 /\ RLt(log[k1][4], log[k2][4])
                 /\ ExpectedPixel(log[k1][3]) # ExpectedPixel(log[k2][3])
                 /\ image[<<log[k2][1], log[k2][2]>>] = ExpectedPixel(log[k2][3])

----------------------------------------------------------------------------
(* The vertex shader, checked under SpecVS *)

\* row r (0 .. 3) of the matrix m times the column vector v
RowTimes(m, r, v) ==
    LET f == <<m.m0, m.m1, m.m2, m.m3, m.m4, m.m5, m.m6, m.m7,
               m.m8, m.m9, m.m10, m.m11, m.m12, m.m13, m.m14, m.m15>>
    IN  RAdd(RAdd(RMul(f[r + 1], v[1]), RMul(f[r + 5], v[2])),
             RAdd(RMul(f[r + 9], v[3]), RMul(f[r + 13], v[4])))

\* (x, y, z, w) = model_matrix * (position, 1) for the call
Homogeneous ==
    LET v == <<call.vertex.position[1], call.vertex.position[2],
               call.vertex.position[3], I(1)>>
        m == call.uniforms.model_matrix
    IN  <<RowTimes(m, 0, v), RowTimes(m, 1, v), RowTimes(m, 2, v),
          RowTimes(m, 3, v)>>

\* (x/w, y/w, z/w), or (x, y, z) when w = 0
Divided ==
    LET t == Homogeneous
    IN  IF t[4][1] = 0 THEN <<t[1], t[2], t[3]>>
        ELSE <<RDiv(t[1], t[4]), RDiv(t[2], t[4]), RDiv(t[3], t[4])>>

\* C6 as stated: transformed_position is (x/w, y/w, z/w) if w # 0, and
\* (x, y, z) if w = 0.
C6_TransformedIsDivided ==
    call.fn = "vertex_shader" => call.result.transformed_position = Divided

\* C6 amended: with (x', y', z') = (x/w, y/w, z/w) if w # 0 and (x, y, z) if
\* w = 0, transformed_position is (x', y' + 0.1 * z', z'): y is shifted by
\* z_factor * 5 with z_factor = 0.02 * z'.
C6_TransformedIsDividedAndShifted ==
    call.fn = "vertex_shader" =>
       call.result.transformed_position =
          <<Divided[1], RAdd(Divided[2], RMul(R(1, 10), Divided[3])),
            Divided[3]>>

\* a vertex with w different from 0 and 1 and z # 0 has been transformed:
\* its y is not y / w
C6_Witness ==
    /\ call.fn = "vertex_shader"
    /\ Homogeneous[4] # Zero /\ Homogeneous[4] # I(1)
    /\ Homogeneous[3] # Zero
    /\ call.result.transformed_position[2] # Divided[2]
    /\ call.result.transformed_position[3] = Divided[3]

----------------------------------------------------------------------------
(* The rasterizer, checked under SpecTri *)

\* twice the signed area of the triangle a b c
Cross(a, b, c) ==
    RSub(RMul(RSub(b[1], a[1]), RSub(c[2], a[2])),
         RMul(RSub(c[1], a[1]), RSub(b[2], a[2])))

Area2(a, b, c) == RAbs(Cross(a, b, c))

\* p lies between the least and the greatest of the three numbers
Between(p, a, b, c) ==
    /\ RLe(a, p) \/ RLe(b, p) \/ RLe(c, p)
    /\ RLe(p, a) \/ RLe(p, b) \/ RLe(p, c)

\* p lies in the closed triangle a b c (its convex hull, a segment or a
\* point when the vertices are collinear): the three triangles p makes with
\* the edges fill it exactly, and p is not beyond the vertices
InClosedTriangle(p, a, b, c) ==
    /\ RAdd(RAdd(Area2(p, a, b), Area2(p, b, c)), Area2(p, c, a))
          = Area2(a, b, c)
    /\ Between(p[1], a[1], b[1], c[1])
    /\ Between(p[2], a[2], b[2], c[2])

\* the integer points around every triangle of TriCoords
Lattice == (-3 .. 5) \X (-3 .. 5)

P1 == call.v1.transformed_position

P2 == call.v2.transformed_position

P3 == call.v3.transformed_position

\* the integer points of the closed triangle of the call
LatticePointsInside ==
    {p \in Lattice : InClosedTriangle(<<I(p[1]), I(p[2])>>, P1, P2, P3)}

Emitted == {call.result[k].position : k \in 1 .. Len(call.result)}

\* C7 as stated: a triangle of positive area yields at least one fragment.
C7_PositiveAreaEmits ==
    (call.fn = "triangle" /\ Area2(P1, P2, P3) # Zero) => Len(call.result) >= 1

\* C7 amended: a triangle of positive area yields at least one fragment if
\* its closed region contains an integer pixel position, and none if it
\* contains no integer pixel position.
C7_PositiveAreaEmitsAtLatticePoints ==
    (call.fn = "triangle" /\ Area2(P1, P2, P3) # Zero) =>
       (Len(call.result) >= 1 <=> LatticePointsInside # {})

\* a triangle of positive area smaller than a pixel has been rasterized and
\* has yielded a fragment
C7_Witness ==
    /\ call.fn = "triangle"
    /\ Area2(P1, P2, P3) # Zero
    /\ RLt(Area2(P1, P2, P3), I(1))
    /\ Len(call.result) >= 1

\* C8: every fragment has integer x and y with
\* floor(min x) <= x <= ceil(max x) and floor(min y) <= y <= ceil(max y)
\* over the three vertices, and no pixel is emitted twice.
C8_FragmentsInBoxOnce ==
    call.fn = "triangle" =>
       /\ \A k \in 1 .. Len(call.result) :
             LET x == I(call.result[k].position[1])
                 y == I(call.result[k].position[2])
             IN  /\ call.result[k].position[1] \in Int
                 /\ call.result[k].position[2] \in Int
                 /\ \E q \in {P1, P2, P3} : RLt(RSub(q[1], I(1)), x)
                 /\ \E q \in {P1, P2, P3} : RLt(x, RAdd(q[1], I(1)))
                 /\ \E q \in {P1, P2, P3} : RLt(RSub(q[2], I(1)), y)
                 /\ \E q \in {P1, P2, P3} : RLt(y, RAdd(q[2], I(1)))
       /\ \A j, k \in 1 .. Len(call.result) :
             j # k => call.result[j].position # call.result[k].position

\* a triangle with a vertex at x = -3/2 has yielded several fragments
C8_Witness ==
    /\ call.fn = "triangle"
    /\ P1[1] = R(-3, 2)
    /\ Len(call.result) >= 3
    /\ \E k \in 1 .. Len(call.result) : call.result[k].position[1] = -1

IntegerVertices ==
    \A q \in {P1, P2, P3} : q[1][2] = 1 /\ q[2][2] = 1

\* C9: for integer vertices the fragments are exactly the integer points of
\* the closed triangle, each once; for (0,0), (4,0), (0,4) these are the 15
\* points with x >= 0, y >= 0, x + y <= 4.
C9_IntegerTriangleIsFilledExactly ==
    (call.fn = "triangle" /\ IntegerVertices) =>
       /\ Emitted = LatticePointsInside
       /\ Len(call.result) = Cardinality(LatticePointsInside)
       /\ ({<<P1[1], P1[2]>>, <<P2[1], P2[2]>>, <<P3[1], P3[2]>>}
              = {<<Zero, Zero>>, <<I(4), Zero>>, <<Zero, I(4)>>})
          => (/\ Emitted = {p \in Lattice :
                              p[1] >= 0 /\ p[2] >= 0 /\ p[1] + p[2] <= 4}
              /\ Len(call.result) = 15)

\* the triangle (0,0), (4,0), (0,4) has been rasterized into 15 fragments
C9_Witness ==
    /\ call.fn = "triangle"
    /\ <<P1[1], P1[2]>> = <<Zero, Zero>>
    /\ <<P2[1], P2[2]>> = <<I(4), Zero>>
    /\ <<P3[1], P3[2]>> = <<Zero, I(4)>>
    /\ Len(call.result) = 15

----------------------------------------------------------------------------
(* Primitive assembly, checked under SpecAsm *)

\* C10: n transformed vertices give floor(n / 3) triangles, triangle k
\* (counted from 0) being (v[3k], v[3k+1], v[3k+2]) in stream order; the
\* trailing n mod 3 vertices are dropped and n < 3 gives no triangle.
C10_AssemblyGroupsByThree ==
    call.fn = "primitive_assembly" =>
       LET v == call.transformed_vertices
           n == Len(v)
       IN  /\ Len(call.result) = n \div 3
           /\ (n < 3 => call.result = <<>>)
           /\ \A k \in 0 .. Len(call.result) - 1 :
                 call.result[k + 1] = <<v[3 * k + 1], v[3 * k + 2], v[3 * k + 3]>>

\* six vertices (two full groups) have been assembled into two triangles
C10_Witness ==
    /\ call.fn = "primitive_assembly"
    /\ Len(call.transformed_vertices) = 6
    /\ Len(call.result) = 2
    /\ call.result[2][1] = call.transformed_vertices[4]

----------------------------------------------------------------------------
(* get_planet_color applied to inputs drawn at the start *)

\* the shaders that derive spherical UV coordinates from the position
SphericalTypes == {0, 1, 2, 3, 5, 6, 7}

\* whether the shader selected by planet_type reaches
\* `norm = Vector3::new(pos.x / len, pos.y / len, pos.z / len)`
normalizes(planet_type, vertex) ==
    planet_type \in SphericalTypes /\ ~too_short(vertex.transformed_position)

\* planet_type: the eight shaders, and values without a shader
ShadeTypes == {0, 1, 2, 3, 4, 5, 6, 7, 8, 9, 255, 2147483647}

\* surface positions: the origin, two of length below 0.001, one of length
\* 0.002, and two of ordinary length
ShadePositions ==
    {<<Zero, Zero, Zero>>,
     <<R(1, 2000), Zero, Zero>>,
     <<Zero, R(-1, 2000), Zero>>,
     <<R(1, 500), Zero, Zero>>,
     <<I(1), I(2), Zero>>,
     <<I(3), I(-1), I(1)>>}

ShadeTexCoords == {<<Zero, Zero>>, <<R(1, 2), I(1)>>}

\* a vertex handed to a shader
ShadeVertex(pos, tex) ==
    [position |-> <<pos[1], pos[2], Zero>>,
     normal |-> <<Zero, I(1), Zero>>,
     tex_coords |-> tex,
     color |-> <<ColorDen, ColorDen, ColorDen>>,
     transformed_position |-> pos,
     transformed_normal |-> <<Zero, I(1), Zero>>]

ShadeFragment ==
    [position |-> <<1, 2>>, color |-> <<ColorDen, ColorDen, ColorDen>>,
     depth |-> Zero]

InitShade ==
    /\ Idle
    /\ \E pos \in ShadePositions, tex \in ShadeTexCoords, t \in Times,
          b \in ShadeTypes :
          call = [fn |-> "input",
                  fragment |-> ShadeFragment,
                  vertex |-> ShadeVertex(pos, tex),
                  time |-> t,
                  planet_type |-> b]

CallGetPlanetColor ==
    /\ call.fn = "input"
    /\ call' = [fn |-> "get_planet_color",
                fragment |-> call.fragment,
                vertex |-> call.vertex,
                time |-> call.time,
                planet_type |-> call.planet_type,
                normalized |-> normalizes(call.planet_type, call.vertex),
                result |-> get_planet_color(call.fragment, call.vertex,
                                            call.time, call.planet_type)]
    /\ UNCHANGED <<fbvars, panicked, cleared, last, writes, log, rendered>>

NextShade == CallGetPlanetColor

SpecShade == InitShade /\ [][NextShade]_vars

----------------------------------------------------------------------------
(* The shader dispatch, checked under SpecShade *)

\* C11: get_planet_color gives the colour of the sun, earth, gas giant,
\* moon, ring, neptune, uranus and venus shader for planet_type 0 .. 7, and
\* white (1, 1, 1) for every other planet_type, whatever the fragment, the
\* vertex and the time.
C11_DispatchByPlanetType ==
    call.fn = "get_planet_color" =>
       LET f == call.fragment
           v == call.vertex
           t == call.time
           b == call.planet_type
       IN  /\ b = 0 => call.result = sun_shader(f, v, t)
           /\ b = 1 => call.result = earth_shader(f, v, t)
           /\ b = 2 => call.result = gas_giant_shader(f, v, t)
           /\ b = 3 => call.result = moon_shader(f, v, t)
           /\ b = 4 => call.result = ring_shader(f, v, t)
           /\ b = 5 => call.result = neptune_shader(f, v, t)
           /\ b = 6 => call.result = uranus_shader(f, v, t)
           /\ b = 7 => call.result = venus_shader(f, v, t)
           /\ b \notin 0 .. 7 => call.result = <<ColorDen, ColorDen, ColorDen>>

\* get_planet_color has been called with a planet_type that has no shader,
\* on a vertex of ordinary length, and has returned white
C11_Witness ==
    /\ call.fn = "get_planet_color"
    /\ call.planet_type = 255
    /\ call.vertex.transformed_position = <<I(3), I(-1), I(1)>>
    /\ call.time = 1
    /\ call.result = <<ColorDen, ColorDen, ColorDen>>

\* x*x + y*y + z*z of the position handed to the shader
SquaredLength ==
    LET p == call.vertex.transformed_position
    IN  RAdd(RMul(p[1], p[1]), RAdd(RMul(p[2], p[2]), RMul(p[3], p[3])))

\* C12: for planet_type 0, 1, 2, 3, 5, 6, 7, a position of length below
\* 0.001 makes the shader return black (0, 0, 0) before it divides by the
\* length.
C12_ShortPositionGivesBlack ==
    (/\ call.fn = "get_planet_color"
     /\ call.planet_type \in {0, 1, 2, 3, 5, 6, 7}
     /\ RLt(SquaredLength, R(1, 1000000))) =>
       (call.result = <<0, 0, 0>> /\ ~call.normalized)

\* the venus shader has been given a position of length 0.0005 and has
\* returned black without normalizing
C12_Witness ==
    /\ call.fn = "get_planet_color"
    /\ call.planet_type = 7
    /\ call.vertex.transformed_position = <<R(1, 2000), Zero, Zero>>
    /\ call.result = <<0, 0, 0>>
    /\ ~call.normalized

----------------------------------------------------------------------------
(* main: construction, model cache and the frame loop (src/src/main.rs) *)

\* the model files main loads into model_cache
UniqueModels == {"Sun", "Earth", "Jupiter", "Uranus", "Asteroid"}

\* the six bodies with Venus and Neptuno exchanged
bodies_venus_after_neptuno ==
    <<[name |-> "Sol", planet_type |-> 0, model_path |-> "Sun"],
      [name |-> "Tierra", planet_type |-> 1, model_path |-> "Earth"],
      [name |-> "Gigante Gaseoso", planet_type |-> 2, model_path |-> "Jupiter"],
      [name |-> "Neptuno", planet_type |-> 5, model_path |-> "Uranus"],
      [name |-> "Venus", planet_type |-> 7, model_path |-> "Earth"],
      [name |-> "Urano", planet_type |-> 6, model_path |-> "Uranus"]>>

\* let bodies = vec![...]
bodies ==
    <<[name |-> "Sol", planet_type |-> 0, model_path |-> "Sun"],
      [name |-> "Tierra", planet_type |-> 1, model_path |-> "Earth"],
      [name |-> "Gigante Gaseoso", planet_type |-> 2, model_path |-> "Jupiter"],
      [name |-> "Venus", planet_type |-> 7, model_path |-> "Earth"],
      [name |-> "Neptuno", planet_type |-> 5, model_path |-> "Uranus"],
      [name |-> "Urano", planet_type |-> 6, model_path |-> "Uranus"]>>

\* the vertex array a loaded model file gives (small stand-ins for the
\* meshes of the asset files)
model_vertices(path) ==
    CASE path = "Sun" -> Mesh(0, 3)
      [] path = "Earth" -> Mesh(1, 3)
      [] path = "Jupiter" -> Mesh(0, 7)
      [] path = "Uranus" -> Mesh(1, 3)
      [] path = "Asteroid" -> Mesh(0, 3)

\* rings::generate_flat_ring(1.0, 1.5, 128), two triangles standing for the
\* ring's 256
ring_vertices == Mesh(1, 6)

\* at most MaxFrames iterations of the loop
MaxFrames == 1

\* the position of main: where it is, the body of the for loop, the frames
\* completed, the time, and the keys of model_cache
MainAt(pc, body, frame, time, cache) ==
    [fn |-> "main", pc |-> pc, body |-> body, frame |-> frame,
     time |-> time, cache |-> cache]

\* main after Framebuffer::new(window_width, window_height)
InitMain ==
    /\ new(4, 3)
    /\ panicked = "none"
    /\ cleared = [done |-> FALSE, background |-> <<0, 0, 0>>]
    /\ last = Op("new")
    /\ writes = 0
    /\ log = <<>>
    /\ rendered = NoRender
    /\ call = MainAt("set_background_color", 0, 0, 0, {})

\* framebuffer.set_background_color(Vector3::new(0.01, 0.01, 0.05))
MainSetBackgroundColor ==
    /\ panicked = "none"
    /\ call.pc = "set_background_color"
    /\ background_color' = <<1, 1, 5>>
    /\ last' = [Op("set_background_color") EXCEPT !.color = <<1, 1, 5>>]
    /\ call' = [call EXCEPT !.pc = "init_texture"]
    /\ UNCHANGED <<width, height, image, texture, star_field, panicked,
                   cleared, writes, log, rendered>>

\* framebuffer.init_texture(&mut window, &thread)
MainInitTexture(ok) ==
    /\ panicked = "none"
    /\ call.pc = "init_texture"
    /\ texture' = IF ok THEN [some |-> TRUE, width |-> width, height |-> height]
                  ELSE texture
    /\ panicked' = IF ok THEN "none" ELSE "unwrap"
    /\ last' = Op("init_texture")
    /\ call' = [call EXCEPT !.pc = "load_models"]
    /\ UNCHANGED <<width, height, image, background_color, star_field,
                   cleared, writes, log, rendered>>

\* the loop over unique_models: loaded is the set of files Obj::load accepts
MainLoadModels(loaded) ==
    /\ panicked = "none"
    /\ call.pc = "load_models"
    /\ call' = [call EXCEPT !.pc = "loop", !.cache = loaded]
    /\ UNCHANGED <<fbvars, panicked, cleared, last, writes, log, rendered>>

\* while !window.window_should_close() { handle_input(..); time += 0.016;
MainLoopTop(close) ==
    /\ panicked = "none"
    /\ call.pc = "loop"
    /\ IF close
       THEN /\ call' = [call EXCEPT !.pc = "done"]
            /\ log' = log
       ELSE /\ call.frame < MaxFrames
            /\ call' = [call EXCEPT !.pc = "clear", !.time = call.time + 1]
            /\ log' = <<>>
    /\ UNCHANGED <<fbvars, panicked, cleared, last, writes, rendered>>

\* framebuffer.clear()
MainClear ==
    /\ panicked = "none"
    /\ call.pc = "clear"
    /\ image' = clear(width, height, background_color, star_field)
    /\ cleared' = [done |-> TRUE, background |-> background_color]
    /\ last' = Op("clear")
    /\ log' = Append(log, <<"clear">>)
    /\ call' = [call EXCEPT !.pc = "body", !.body = 1]
    /\ UNCHANGED <<width, height, background_color, texture, star_field,
                   panicked, writes, rendered>>

\* where main goes after the body at index i and its moon or ring
after_body(i) ==
    IF i < Len(bodies) THEN [pc |-> "body", body |-> i + 1]
    ELSE [pc |-> "update_texture", body |-> i]

\* one iteration of `for body in bodies.iter()` up to the match: the body
\* is rendered if its model is in the cache
MainRenderBody(m) ==
    /\ panicked = "none"
    /\ call.pc = "body"
    /\ LET body == bodies[call.body]
           uniforms == [model_matrix |-> m, time |-> call.time,
                        planet_type |-> body.planet_type]
           next == IF body.planet_type \in {1, 2}
                   THEN [pc |-> "satellite", body |-> call.body]
                   ELSE after_body(call.body)
       IN  /\ IF body.model_path \in call.cache
              THEN /\ \E r \in {render(image, width, height, uniforms,
                                       model_vertices(body.model_path))} :
                         image' = r.image
                   /\ log' = Append(log, <<"render", body.planet_type>>)
                   /\ last' = Op("render")
              ELSE UNCHANGED <<image, log, last>>
           /\ call' = [call EXCEPT !.pc = next.pc, !.body = next.body]
    /\ UNCHANGED <<width, height, background_color, texture, star_field,
                   panicked, cleared, writes, rendered>>

\* match body.planet_type: the moon for 1 (if the asteroid model is in the
\* cache), the ring for 2
MainRenderSatellite(m) ==
    /\ panicked = "none"
    /\ call.pc = "satellite"
    /\ LET body == bodies[call.body]
           moon == body.planet_type = 1
           uniforms == [model_matrix |-> m, time |-> call.time,
                        planet_type |-> IF moon THEN 3 ELSE 4]
           vertex_array == IF moon THEN model_vertices("Asteroid")
                           ELSE ring_vertices
           next == after_body(call.body)
       IN  /\ IF moon /\ "Asteroid" \notin call.cache
              THEN UNCHANGED <<image, log, last>>
              ELSE /\ \E r \in {render(image, width, height, uniforms,
                                       vertex_array)} :
                         image' = r.image
                   /\ log' = Append(log, <<"render", uniforms.planet_type>>)
                   /\ last' = Op("render")
           /\ call' = [call EXCEPT !.pc = next.pc, !.body = next.body]
    /\ UNCHANGED <<width, height, background_color, texture, star_field,
                   panicked, cleared, writes, rendered>>

\* framebuffer.update_texture()
MainUpdateTexture ==
    /\ panicked = "none"
    /\ call.pc = "update_texture"
    /\ panicked' = update_texture_panic(texture, width, height)
    /\ last' = Op("update_texture")
    /\ log' = Append(log, <<"update_texture">>)
    /\ call' = [call EXCEPT !.pc = "draw"]
    /\ UNCHANGED <<fbvars, cleared, writes, rendered>>

\* framebuffer.draw(&mut draw_handle), the HUD and the sleep
MainDraw ==
    /\ panicked = "none"
    /\ call.pc = "draw"
    /\ last' = Op("draw")
    /\ log' = Append(log, <<"draw">>)
    /\ call' = [call EXCEPT !.pc = "loop", !.frame = call.frame + 1]
    /\ UNCHANGED <<fbvars, panicked, cleared, writes, rendered>>

NextMain ==
    \/ MainSetBackgroundColor
    \/ \E ok \in BOOLEAN : MainInitTexture(ok)
    \/ \E loaded \in SUBSET UniqueModels : MainLoadModels(loaded)
    \/ \E close \in BOOLEAN : MainLoopTop(close)
    \/ MainClear
    \/ \E m \in RenderMatrices : MainRenderBody(m)
    \/ \E m \in RenderMatrices : MainRenderSatellite(m)
    \/ MainUpdateTexture
    \/ MainDraw

SpecMain == InitMain /\ [][NextMain]_vars

----------------------------------------------------------------------------
(* The frame loop, checked under SpecMain *)

\* the model file whose presence in the cache lets a shader's body be drawn
\* (the ring is generated, not loaded)
NeededModel ==
    [b \in {0, 1, 2, 3, 5, 6, 7} |->
        CASE b = 0 -> "Sun"
          [] b \in {1, 7} -> "Earth"
          [] b = 2 -> "Jupiter"
          [] b = 3 -> "Asteroid"
          [] b \in {5, 6} -> "Uranus"]

\* Sol, Tierra and its moon, the gas giant and its ring, Venus, Neptuno,
\* Urano, by planet_type
DrawOrder == <<0, 1, 3, 2, 4, 7, 5, 6>>

IsDrawn(b) == b = 4 \/ NeededModel[b] \in call.cache

\* the events of one whole frame
ExpectedFrame ==
    <<<<"clear">>>>
       \o [k \in 1 .. Len(SelectSeq(DrawOrder, IsDrawn)) |->
             <<"render", SelectSeq(DrawOrder, IsDrawn)[k]>>]
       \o <<<<"update_texture">>, <<"draw">>>>

IsPrefix(s, t) == Len(s) <= Len(t) /\ \A k \in 1 .. Len(s) : s[k] = t[k]

----------------------------------------------------------------------------
(* The star field, checked under SpecFB *)

\* C14: star_field is what Framebuffer::new generated, in every state: no
\* operation changes it; so the buffer clear() leaves is a fixed function
\* of the size and background_color, the same at every clear().
C14_StarFieldIsFixed ==
    /\ star_field = StarTable[<<width, height>>]
    /\ Len(star_field) = StarCount
    /\ last.op = "clear" =>
          image = ClearTable[<<width, height>>][background_color]

\* clear has run after init_texture and set_background_color, with the
\* star field of the construction
C14_Witness ==
    /\ last.op = "clear"
    /\ texture.some
    /\ background_color = <<1, 1, 5>>
    /\ star_field = StarTable[<<width, height>>]
    /\ image # Fill(width, height, bg_color(background_color))

\* the four neighbours of the pixel <<x, y>>
Neighbours(x, y) == {<<x - 1, y>>, <<x + 1, y>>, <<x, y - 1>>, <<x, y + 1>>}

\* the star is inside the w x h buffer, its core is drawn first, every
\* pixel drawn for it is inside the buffer, and a neighbour is drawn, at
\* half the core's brightness, exactly if the star is brighter than 0.8 and
\* the neighbour is inside
StarDrawnInside(w, h, star) ==
    LET x == star[1]
        y == star[2]
        b == star[3]
        calls == star_pixels(w, h, star)
        drawn == {<<calls[k][1], calls[k][2]>> : k \in 1 .. Len(calls)}
    IN  /\ x \in 0 .. w - 1 /\ y \in 0 .. h - 1
        /\ calls[1] = <<x, y, <<(255 * b) \div 100, (255 * b) \div 100,
                                (255 * b * 9) \div 1000, 255>>>>
        /\ drawn \subseteq Pixels(w, h)
        /\ drawn \subseteq {<<x, y>>} \cup Neighbours(x, y)
        /\ \A n \in Neighbours(x, y) :
              n \in drawn <=> (b > 80 /\ n \in Pixels(w, h))
        /\ \A k \in 2 .. Len(calls) :
              calls[k][3] = <<(255 * b) \div 200, (255 * b) \div 200,
                              (255 * b * 45) \div 10000, 255>>
        /\ Len(calls) = Cardinality(drawn)

\* the colour the draw_pixel calls of star_pixels leave at the pixel p of
\* the buffer filled with the background: that of the last call at p
LeftByStarPixels(p) ==
    LET at(i) == {k \in 1 .. Len(star_pixels(width, height, star_field[i])) :
                    /\ star_pixels(width, height, star_field[i])[k][1] = p[1]
                    /\ star_pixels(width, height, star_field[i])[k][2] = p[2]}
        hits == {i \in 1 .. Len(star_field) : at(i) # {}}
        top == CHOOSE i \in hits : \A j \in hits : j <= i
    IN  IF hits = {} THEN bg_color(background_color)
        ELSE star_pixels(width, height, star_field[top])
                [CHOOSE k \in at(top) : \A j \in at(top) : j <= k][3]

\* C15: every star of star_field lies inside the buffer; clear() draws its
\* core, and each of its four neighbours only if the star's brightness is
\* above 0.8 and the neighbour lies inside the buffer, at half brightness;
\* so clear() draws no pixel outside the buffer, and the buffer it leaves
\* is the background overdrawn by exactly these pixels.
C15_StarsDrawnInside ==
    /\ width >= 1 /\ height >= 1
    /\ \A i \in 1 .. Len(star_field) :
          StarDrawnInside(width, height, star_field[i])
    /\ (last.op = "clear" /\ width = 4) =>
          \A p \in Pixels(width, height) : image[p] = LeftByStarPixels(p)

\* clear has drawn the star field of the 4 x 3 buffer, which has a bright
\* star in a corner (two of its neighbours are outside) and a faint star
C15_Witness ==
    /\ last.op = "clear"
    /\ width = 4 /\ height = 3
    /\ \E i \in 1 .. Len(star_field) :
          /\ star_field[i][3] > 80
          /\ star_field[i][1] = 0 /\ star_field[i][2] = 0
          /\ Len(star_pixels(width, height, star_field[i])) = 3
    /\ \E i \in 1 .. Len(star_field) :
          /\ star_field[i][3] <= 80
          /\ Len(star_pixels(width, height, star_field[i])) = 1

----------------------------------------------------------------------------
(* render called repeatedly, each run recorded *)

\* at most MaxRuns calls of render
MaxRuns == 3

\* the vertex arrays of the runs: two triangles, and the empty array
ReplayMeshes == {Mesh(0, 3), Mesh(1, 3), Mesh(0, 0)}

InitReplay ==
    /\ width = 4
    /\ height = 3
    /\ image = Fill(4, 3, BLACK)
    /\ background_color = <<1, 1, 5>>
    /\ texture = [some |-> TRUE, width |-> 4, height |-> 3]
    /\ star_field = StarTable[<<4, 3>>]
    /\ panicked = "none"
    /\ cleared = [done |-> FALSE, background |-> <<0, 0, 0>>]
    /\ last = Op("init_texture")
    /\ writes = 0
    /\ log = <<>>
    /\ rendered = NoRender
    /\ call = [fn |-> "render", runs |-> <<>>]

\* render(&mut framebuffer, uniforms, vertex_array); the run is recorded:
\* the image before, the arguments, the fragments, the point calls and the
\* image after
ReplayRender(uniforms, vertex_array) ==
    /\ panicked = "none"
    /\ Len(call.runs) < MaxRuns
    /\ \E r \in {render(image, width, height, uniforms, vertex_array)} :
           /\ image' = r.image
           /\ call' = [call EXCEPT !.runs =
                          Append(@, [image |-> image,
                                     uniforms |-> uniforms,
                                     vertex_array |-> vertex_array,
                                     fragments |-> r.fragments,
                                     calls |-> r.calls,
                                     result |-> r.image])]
    /\ writes' = writes + 1
    /\ last' = Op("render")
    /\ UNCHANGED <<width, height, background_color, texture, star_field,
                   panicked, cleared, log, rendered>>

NextReplay ==
    \/ Clear
    \/ \E b \in RenderTypes, va \in ReplayMeshes :
          ReplayRender([model_matrix |-> Identity, time |-> 1,
                        planet_type |-> b], va)

SpecReplay == InitReplay /\ [][NextReplay]_vars

----------------------------------------------------------------------------
(* Determinism, checked under SpecReplay *)

----------------------------------------------------------------------------
(* Texture sampling (texture.rs) *)

Zero3 == <<Zero, Zero, Zero>>

White3 == <<I(1), I(1), I(1)>>

\* f32 to integer, rounding toward zero
RTrunc(a) == IF a[1] >= 0 THEN RFloor(a) ELSE RCeil(a)

\* f32::fract: what is left of a after its integer part, with the sign of a
fract(a) == RSub(a, I(RTrunc(a)))

\* Texture::load: the decoded image of the file at a path as Some = <<t>>,
\* or None = <<>> when image::open fails.  A texture is its width, its
\* height and its RGBA bytes
Texture_load(path) ==
    IF path = "two_by_one.png"
    THEN <<[width |-> 2, height |-> 1,
            data |-> <<255, 0, 0, 255, 0, 0, 255, 255>>]>>
    ELSE IF path = "two_by_two.png"
    THEN <<[width |-> 2, height |-> 2,
            data |-> <<51, 102, 204, 255, 0, 255, 0, 255,
                       255, 255, 0, 255, 0, 0, 0, 255>>]>>
    ELSE <<>>

get_pixel(tex, x, y) ==
    LET idx == (y * tex.width + x) * 4
    IN  IF idx + 2 < Len(tex.data)
        THEN <<R(tex.data[idx + 1], 255), R(tex.data[idx + 2], 255),
               R(tex.data[idx + 3], 255)>>
        ELSE White3

mix_vec3(a, b, t) ==
    [i \in 1 .. 3 |-> RAdd(RMul(a[i], RSub(I(1), t)), RMul(b[i], t))]

sample_bilinear(tex, u0, v0) ==
    LET u == fract(u0)
        v == fract(v0)
        x == RSub(RMul(u, I(tex.width)), R(1, 2))
        y == RSub(RMul(v, I(tex.height)), R(1, 2))
        x0 == Max2(RFloor(x), 0)
        y0 == Max2(RFloor(y), 0)
        x1 == Min2(x0 + 1, tex.width - 1)
        y1 == Min2(y0 + 1, tex.height - 1)
        fx == RSub(x, I(RFloor(x)))
        fy == RSub(y, I(RFloor(y)))
        c00 == get_pixel(tex, x0, y0)
        c10 == get_pixel(tex, x1, y0)
        c01 == get_pixel(tex, x0, y1)
        c11 == get_pixel(tex, x1, y1)
        c0 == mix_vec3(c00, c10, fx)
        c1 == mix_vec3(c01, c11, fx)
    IN  mix_vec3(c0, c1, fy)

----------------------------------------------------------------------------
(* Loading a model (obj.rs).  What tobj returns is the input: a file is
   [error, models, materials_result]; a mesh is [positions, normals,
   texcoords, indices, material_id] with one triple per vertex in positions
   and normals and one pair per vertex in texcoords, each standing for three
   or two consecutive floats of the flat arrays; an Option is <<>> for None
   and <<v>> for Some(v).  The loader's colours are exact rationals. *)

\* a tobj material with the defaults of the loader filled in
material(mat) ==
    [ambient |-> IF mat.ambient # <<>> THEN mat.ambient[1]
                 ELSE <<R(1, 5), R(1, 5), R(1, 5)>>,
     diffuse |-> IF mat.diffuse # <<>> THEN mat.diffuse[1] ELSE White3,
     texture_path |-> mat.diffuse_texture]

\* the texture of the first material, from the i-th on, whose texture file
\* decodes; a material whose file fails to decode is passed over
RECURSIVE load_texture(_, _)
load_texture(materials, i) ==
    IF i > Len(materials) THEN <<>>
    ELSE IF materials[i].texture_path # <<>>
              /\ Texture_load(materials[i].texture_path[1]) # <<>>
         THEN Texture_load(materials[i].texture_path[1])
         ELSE load_texture(materials, i + 1)

\* min_x, min_y, min_z of a mesh with at least one vertex
bounds_min(positions) ==
    [a \in 1 .. 3 |->
       CHOOSE m \in {positions[i][a] : i \in 1 .. Len(positions)} :
          \A i \in 1 .. Len(positions) : RLe(m, positions[i][a])]

\* max_x, max_y, max_z of a mesh with at least one vertex
bounds_max(positions) ==
    [a \in 1 .. 3 |->
       CHOOSE m \in {positions[i][a] : i \in 1 .. Len(positions)} :
          \A i \in 1 .. Len(positions) : RLe(positions[i][a], m)]

\* without vertices min = f32::MAX and max = f32::MIN, whose sum is 0
center(positions) ==
    IF positions = <<>> THEN Zero3
    ELSE [a \in 1 .. 3 |->
            RDiv(RAdd(bounds_min(positions)[a], bounds_max(positions)[a]),
                 I(2))]

\* max_size of a mesh with at least one vertex
max_size(positions) ==
    LET size == [a \in 1 .. 3 |->
                   RSub(bounds_max(positions)[a], bounds_min(positions)[a])]
    IN  RMax(RMax(size[1], size[2]), size[3])

scale_to_unit(positions) ==
    IF positions # <<>> /\ RLt(Zero, max_size(positions))
    THEN RDiv(I(1), max_size(positions))
    ELSE I(1)

\* without vertices max_size = f32::MIN - f32::MAX, which is not above 0
scale(positions) ==
    IF positions # <<>> /\ RLt(Zero, max_size(positions))
    THEN RDiv(I(2), max_size(positions))
    ELSE I(1)

\* the colour of a mesh before the texture is blended in
material_color(material_idx, materials) ==
    IF material_idx # <<>>
    THEN IF material_idx[1] < Len(materials)
         THEN LET mat == materials[material_idx[1] + 1]
              IN  IF /\ RLt(RAbs(RSub(mat.diffuse[1], I(1))), R(1, 100))
                     /\ RLt(RAbs(RSub(mat.diffuse[2], I(1))), R(1, 100))
                     /\ RLt(RAbs(RSub(mat.diffuse[3], I(1))), R(1, 100))
                  THEN mat.ambient
                  ELSE mat.diffuse
         ELSE White3
    ELSE White3

blend_weights_exchanged(tex_color, color) ==
    [i \in 1 .. 3 |->
       RAdd(RMul(tex_color[i], R(3, 10)), RMul(color[i], R(7, 10)))]

\* 70% texture with 30% material
blend(tex_color, color) ==
    [i \in 1 .. 3 |->
       RAdd(RMul(tex_color[i], R(7, 10)), RMul(color[i], R(3, 10)))]

\* the i-th vertex of a mesh: position, normal, tex_coords and color as the
\* loader sets them
load_vertex(mesh, i, materials, tex) ==
    LET c == center(mesh.positions)
        s == scale(mesh.positions)
        p == mesh.positions[i]
        position == <<RMul(RSub(p[1], c[1]), s),
                      RMul(RSub(Zero, RSub(p[2], c[2])), s),
                      RMul(RSub(p[3], c[3]), s)>>
        normal == IF mesh.normals # <<>>
                  THEN <<mesh.normals[i][1],
                         RSub(Zero, mesh.normals[i][2]),
                         mesh.normals[i][3]>>
                  ELSE Zero3
        tex_coords == IF mesh.texcoords # <<>> THEN mesh.texcoords[i]
                      ELSE <<Zero, Zero>>
        color == material_color(mesh.material_id, materials)
    IN  [position |-> position,
         normal |-> normal,
         tex_coords |-> tex_coords,
         color |-> IF tex # <<>>
                   THEN blend(sample_bilinear(tex[1], tex_coords[1],
                                              tex_coords[2]), color)
                   ELSE color]

\* the vertices and the indices of the models from the k-th on, appended
\* to the ones collected so far
RECURSIVE load_models(_, _, _, _, _)
load_models(models, k, materials, tex, acc) ==
    IF k > Len(models) THEN acc
    ELSE LET mesh == models[k]
         IN  load_models(models, k + 1, materials, tex,
                [vertices |-> acc.vertices \o
                    [i \in 1 .. Len(mesh.positions) |->
                       load_vertex(mesh, i, materials, tex)],
                 indices |-> acc.indices \o mesh.indices])

\* Obj::load: Err when tobj fails, else the Obj
Obj_load(file) ==
    IF file.error THEN [ok |-> FALSE]
    ELSE LET materials ==
                 IF file.materials_result.ok
                 THEN [i \in 1 .. Len(file.materials_result.mats) |->
                         material(file.materials_result.mats[i])]
                 ELSE <<>>
             tex == load_texture(materials, 1)
             loaded == load_models(file.models, 1, materials, tex,
                                   [vertices |-> <<>>, indices |-> <<>>])
         IN  [ok |-> TRUE,
              vertices |-> loaded.vertices,
              indices |-> loaded.indices,
              materials |-> materials,
              mesh_materials |->
                 [k \in 1 .. Len(file.models) |-> file.models[k].material_id],
              texture |-> tex]

----------------------------------------------------------------------------
(* Obj::load as a pure call: the initial state holds the file as tobj
   decodes it, the one step loads it *)

MaxModels == 2

V3(x, y, z) == <<I(x), I(y), I(z)>>

\* positions, normals and texcoords of the meshes tried: a box of sizes
\* 4, 2, 1; two equal vertices; a box of sizes 4, 6, 8 with texture
\* coordinates outside [0, 1); no vertex at all; a segment of sizes 1, 3, 0
ObjShapes ==
    {[positions |-> <<V3(0, 0, 0), V3(4, 2, 0), V3(0, 2, 1)>>,
      normals |-> <<V3(0, 1, 0), V3(0, 1, 0), V3(1, 0, 0)>>,
      texcoords |-> <<<<Zero, Zero>>, <<R(1, 2), R(1, 2)>>,
                      <<R(1, 4), R(3, 4)>>>>],
     [positions |-> <<V3(1, 1, 1), V3(1, 1, 1)>>,
      normals |-> <<>>,
      texcoords |-> <<>>],
     [positions |-> <<V3(-3, 5, 2), V3(1, -1, 2), V3(-1, 0, 10)>>,
      normals |-> <<>>,
      texcoords |-> <<<<R(5, 4), R(-1, 4)>>, <<R(3, 4), R(1, 4)>>,
                      <<I(1), I(1)>>>>],
     [positions |-> <<>>, normals |-> <<>>, texcoords |-> <<>>],
     [positions |-> <<V3(0, 0, 0), V3(1, 3, 0)>>,
      normals |-> <<V3(0, 0, 1), V3(0, -1, 0)>>,
      texcoords |-> <<<<R(1, 2), Zero>>, <<R(9, 10), R(1, 2)>>>>]}

\* no material, the first, the second, one past any list tried
ObjMaterialIds == {<<>>, <<0>>, <<1>>, <<5>>}

ObjMeshes ==
    {[positions |-> s.positions,
      normals |-> s.normals,
      texcoords |-> s.texcoords,
      indices |-> [i \in 1 .. Len(s.positions) |-> i - 1],
      material_id |-> id] : s \in ObjShapes, id \in ObjMaterialIds}

ObjAmbient == <<R(1, 5), R(2, 5), R(3, 5)>>

ObjRed == <<R(4, 5), R(1, 10), R(1, 10)>>

\* a white diffuse colour with ambient ObjAmbient
ObjWhite(tex) ==
    [ambient |-> <<ObjAmbient>>, diffuse |-> <<White3>>,
     diffuse_texture |-> tex]

\* a diffuse colour away from white
ObjColored(tex) ==
    [ambient |-> <<ObjAmbient>>, diffuse |-> <<ObjRed>>,
     diffuse_texture |-> tex]

\* the material lists tried: none; without texture; a texture that fails
\* before one that decodes; one that decodes before one that fails; only
\* failing textures; diffuse within 0.01 of white with no ambient, and
\* diffuse white in two channels only; no diffuse, and a second texture
ObjMaterialLists ==
    {<<>>,
     <<ObjWhite(<<>>), ObjColored(<<>>)>>,
     <<ObjWhite(<<"missing.png">>), ObjColored(<<"two_by_one.png">>)>>,
     <<ObjWhite(<<"two_by_two.png">>), ObjColored(<<"missing.png">>)>>,
     <<ObjColored(<<"missing.png">>), ObjWhite(<<"broken.png">>)>>,
     <<[ambient |-> <<>>,
        diffuse |-> <<<<R(199, 200), I(1), R(199, 200)>>>>,
        diffuse_texture |-> <<>>],
       [ambient |-> <<ObjAmbient>>,
        diffuse |-> <<<<I(1), I(1), R(1, 2)>>>>,
        diffuse_texture |-> <<>>]>>,
     <<[ambient |-> <<ObjAmbient>>, diffuse |-> <<>>,
        diffuse_texture |-> <<>>],
       ObjColored(<<"two_by_two.png">>)>>}

ObjModelLists ==
    UNION {[1 .. n -> ObjMeshes] : n \in 0 .. MaxModels}

ObjFiles ==
    {[error |-> TRUE, models |-> <<>>,
      materials_result |-> [ok |-> FALSE, mats |-> <<>>]]}
    \cup {[error |-> FALSE, models |-> ms,
           materials_result |-> [ok |-> TRUE, mats |-> mats]] :
             ms \in ObjModelLists, mats \in ObjMaterialLists}
    \cup {[error |-> FALSE, models |-> ms,
           materials_result |-> [ok |-> FALSE, mats |-> <<>>]] :
             ms \in ObjModelLists}

InitObj ==
    /\ Idle
    /\ \E file \in ObjFiles : call = [fn |-> "input", file |-> file]

CallObjLoad ==
    /\ call.fn = "input"
    /\ call' = [fn |-> "Obj::load",
                file |-> call.file,
                result |-> Obj_load(call.file)]
    /\ UNCHANGED <<fbvars, panicked, cleared, last, writes, log, rendered>>

NextObj == CallObjLoad

SpecObj == InitObj /\ [][NextObj]_vars

----------------------------------------------------------------------------
(* Properties of the loader *)

\* the number of vertices loaded before those of the k-th model
RECURSIVE VerticesBefore(_, _)
VerticesBefore(models, k) ==
    IF k <= 1 THEN 0
    ELSE VerticesBefore(models, k - 1) + Len(models[k - 1].positions)

\* the vertices that the load made of the k-th model of the file
LoadedOf(k) ==
    [i \in 1 .. Len(call.file.models[k].positions) |->
       call.result.vertices[VerticesBefore(call.file.models, k) + i]]

\* the least and the greatest coordinate on axis a of a non-empty list
Lowest(ps, a) ==
    CHOOSE m \in {ps[i][a] : i \in 1 .. Len(ps)} :
       \A i \in 1 .. Len(ps) : RLe(m, ps[i][a])

Highest(ps, a) ==
    CHOOSE m \in {ps[i][a] : i \in 1 .. Len(ps)} :
       \A i \in 1 .. Len(ps) : RLe(ps[i][a], m)

\* the largest of the three sizes of the bounding box
LargestExtent(ps) ==
    CHOOSE e \in {RSub(Highest(ps, a), Lowest(ps, a)) : a \in 1 .. 3} :
       \A a \in 1 .. 3 : RLe(RSub(Highest(ps, a), Lowest(ps, a)), e)

\* C17: after a load that succeeds, the loaded positions of every sub-model
\* whose bounding box has a positive largest size are the file's positions
\* moved so that the box is centred at the origin and scaled by 2 / that
\* size, with y negated: the box of the loaded positions is centred, every
\* coordinate is in [-1, 1] and the largest size is exactly 2.  With a
\* largest size of 0 the scale is 1, the load still succeeds and every
\* vertex is at the origin.
C17_NormalizedToUnitCube ==
    (call.fn = "Obj::load" /\ ~call.file.error) =>
       /\ call.result.ok
       /\ \A k \in 1 .. Len(call.file.models) :
             LET ps == call.file.models[k].positions
                 out == [i \in 1 .. Len(ps) |-> LoadedOf(k)[i].position]
             IN  ps # <<>> =>
                   LET e == LargestExtent(ps)
                       mid == [a \in 1 .. 3 |->
                                 RDiv(RAdd(Lowest(ps, a), Highest(ps, a)),
                                      I(2))]
                       s == IF RLt(Zero, e) THEN RDiv(I(2), e) ELSE I(1)
                   IN  /\ \A i \in 1 .. Len(ps) :
                             out[i] =
                                <<RMul(RSub(ps[i][1], mid[1]), s),
                                  RMul(RSub(mid[2], ps[i][2]), s),
                                  RMul(RSub(ps[i][3], mid[3]), s)>>
                       /\ RLt(Zero, e) =>
                             /\ \A a \in 1 .. 3 :
                                   Lowest(out, a)
                                      = RSub(Zero, Highest(out, a))
                             /\ \A i \in 1 .. Len(ps), a \in 1 .. 3 :
                                   /\ RLe(I(-1), out[i][a])
                                   /\ RLe(out[i][a], I(1))
                             /\ LargestExtent(out) = I(2)
                       /\ ~RLt(Zero, e) =>
                             \A i \in 1 .. Len(ps) : out[i] = Zero3

\* a file was loaded whose first sub-model has sizes 4, 6, 8 and was moved
\* and scaled by 1/4, and whose second has two equal vertices
C17_Witness ==
    /\ call.fn = "Obj::load"
    /\ call.result.ok
    /\ Len(call.file.models) = 2
    /\ call.file.models[1].positions
          = <<V3(-3, 5, 2), V3(1, -1, 2), V3(-1, 0, 10)>>
    /\ LoadedOf(1)[1].position = <<R(-1, 2), R(-3, 4), I(-1)>>
    /\ LoadedOf(1)[3].position = <<Zero, R(1, 2), I(1)>>
    /\ call.file.models[2].positions = <<V3(1, 1, 1), V3(1, 1, 1)>>
    /\ LoadedOf(2)[1].position = Zero3

\* a channel within 0.01 of 1.0
NearOne(c) == RLt(RAbs(RSub(c, I(1))), R(1, 100))

\* the colour that the materials of the loaded Obj give the k-th sub-model
MaterialColorOf(k) ==
    LET id == call.file.models[k].material_id
        mats == call.result.materials
    IN  IF id = <<>> THEN White3
        ELSE IF id[1] >= Len(mats) THEN White3
        ELSE IF \A ch \in 1 .. 3 : NearOne(mats[id[1] + 1].diffuse[ch])
             THEN mats[id[1] + 1].ambient
             ELSE mats[id[1] + 1].diffuse

\* C18: after a load that succeeds, the colour of every vertex is the
\* colour of its sub-model's material (ambient if the three diffuse channels
\* are within 0.01 of 1, else diffuse; white without a material index or
\* with one out of range) when the Obj has no texture, and per channel
\* 0.7 * the bilinear sample at the vertex's tex_coords + 0.3 * that colour
\* when it has one.
C18_BakedColor ==
    (call.fn = "Obj::load" /\ call.result.ok) =>
       \A k \in 1 .. Len(call.file.models) :
          \A i \in 1 .. Len(call.file.models[k].positions) :
             LET v == LoadedOf(k)[i]
                 c == MaterialColorOf(k)
             IN  IF call.result.texture = <<>>
                 THEN v.color = c
                 ELSE LET t == sample_bilinear(call.result.texture[1],
                                               v.tex_coords[1],
                                               v.tex_coords[2])
                      IN  v.color =
                             [ch \in 1 .. 3 |->
                                RAdd(RMul(R(7, 10), t[ch]),
                                     RMul(R(3, 10), c[ch]))]

\* a file with a decoded 2 x 1 texture (red, blue) was loaded: its first
\* sub-model has the second, coloured material and its vertex at (1/2, 1/2)
\* samples half red, half blue; its second sub-model has an index out of
\* range and its vertex at (0, 0), half a texel left of the first texel,
\* samples half red, half blue as well
C18_Witness ==
    /\ call.fn = "Obj::load"
    /\ call.result.ok
    /\ call.result.texture = Texture_load("two_by_one.png")
    /\ Len(call.file.models) = 2
    /\ call.file.models[1].material_id = <<1>>
    /\ Len(call.file.models[1].positions) = 3
    /\ LoadedOf(1)[2].tex_coords = <<R(1, 2), R(1, 2)>>
    /\ LoadedOf(1)[2].color = <<R(59, 100), R(3, 100), R(19, 50)>>
    /\ call.file.models[2].material_id = <<5>>
    /\ Len(call.file.models[2].positions) = 3
    /\ LoadedOf(2)[1].tex_coords = <<Zero, Zero>>
    /\ LoadedOf(2)[1].color = <<R(13, 20), R(3, 10), R(13, 20)>>

\* the material of the k-th sub-model names a texture file that failed to
\* decode
TextureFailedOf(k) ==
    LET id == call.file.models[k].material_id
        mats == call.result.materials
    IN  /\ id # <<>>
        /\ id[1] < Len(mats)
        /\ mats[id[1] + 1].texture_path # <<>>
        /\ Texture_load(mats[id[1] + 1].texture_path[1]) = <<>>

\* C19: a load whose textures fail to decode still succeeds, and every
\* vertex of a sub-model whose material's texture failed to decode has the
\* colour of the material alone, whatever the other materials of the file.
C19_FailedTextureGivesMaterialColor ==
    (call.fn = "Obj::load" /\ ~call.file.error) =>
       /\ call.result.ok
       /\ \A k \in 1 .. Len(call.file.models) :
             TextureFailedOf(k) =>
                \A i \in 1 .. Len(call.file.models[k].positions) :
                   LoadedOf(k)[i].color = MaterialColorOf(k)

----------------------------------------------------------------------------
(* Properties of the vertex shader's result *)

\* C20: the step that calls vertex_shader leaves the vertex it was given as
\* it was, and returns a vertex whose position, normal, tex_coords and color
\* are the given vertex's and whose transformed_normal is the given normal,
\* for every model matrix.
C20_VertexShaderKeepsInput ==
    [][call.fn = "input" =>
          /\ call'.fn = "vertex_shader"
          /\ call'.vertex = call.vertex
          /\ call'.result.position = call.vertex.position
          /\ call'.result.normal = call.vertex.normal
          /\ call'.result.tex_coords = call.vertex.tex_coords
          /\ call'.result.color = call.vertex.color
          /\ call'.result.transformed_normal = call.vertex.normal]_vars

\* vertex_shader has moved a vertex with the halving matrix: the result's
\* transformed_position is away from its position
C20_Witness ==
    /\ call.fn = "vertex_shader"
    /\ call.uniforms.model_matrix = Halve
    /\ call.vertex.position = <<I(3), I(-2), R(1, 2)>>
    /\ call.result.position = <<I(3), I(-2), R(1, 2)>>
    /\ call.result.transformed_position # call.result.position
    /\ call.result.transformed_position # call.vertex.transformed_position

----------------------------------------------------------------------------
(* Properties of the ring's shading *)

\* the fragment lies at the screen position of the transformed vertex tv
FragmentAtVertex(fragment, tv) ==
    /\ tv.transformed_position[1] = I(fragment.position[1])
    /\ tv.transformed_position[2] = I(fragment.position[2])

\* C21: in a render with planet_type 4 the colour of a fragment is what
\* ring_shader gives for the texture coordinates of the mesh: a fragment at
\* the screen position of a vertex of the array is shaded with that vertex's
\* tex_coords.
C21_RingReadsMeshTexCoords ==
    call.fn = "render" =>
       \A n \in 1 .. Len(call.runs) :
          LET run == call.runs[n]
          IN  run.uniforms.planet_type = 4 =>
                 \A k \in 1 .. Len(run.fragments),
                    i \in 1 .. Len(run.vertex_array) :
                    LET tv == vertex_shader(run.vertex_array[i], run.uniforms)
                    IN  FragmentAtVertex(run.fragments[k], tv) =>
                           run.calls[k][3] =
                              ring_shader(run.fragments[k], tv,
                                          run.uniforms.time)

----------------------------------------------------------------------------
(* Value noise and fbm (shaders.rs), as a pure call *)

\* hash(x) is the fractional part of sin(x * 43758.5453), a value in [0, 1)
\* that has no exact model: a fixed function of x into the quarters of
\* [0, 1) stands for it.  noise calls it with whole numbers only.
hash(x) == R((13 * x[1] + 5 * x[2]) % 4, 4)

noise(p) ==
    LET i == <<I(RFloor(p[1])), I(RFloor(p[2]))>>
        f == <<RSub(p[1], i[1]), RSub(p[2], i[2])>>
        a == hash(RAdd(i[1], RMul(i[2], I(57))))
        b == hash(RAdd(RAdd(i[1], I(1)), RMul(i[2], I(57))))
        c == hash(RAdd(i[1], RMul(RAdd(i[2], I(1)), I(57))))
        d == hash(RAdd(RAdd(i[1], I(1)), RMul(RAdd(i[2], I(1)), I(57))))
        u == RMul(RMul(f[1], f[1]), RSub(I(3), RMul(I(2), f[1])))
        v == RMul(RMul(f[2], f[2]), RSub(I(3), RMul(I(2), f[2])))
        one_u == RSub(I(1), u)
        one_v == RSub(I(1), v)
    IN  RAdd(RAdd(RAdd(RMul(RMul(a, one_u), one_v), RMul(RMul(b, u), one_v)),
                  RMul(RMul(c, one_u), v)),
             RMul(RMul(d, u), v))

\* the body of `for _ in 0..octaves`, run for the rounds left, on the
\* loop's variables
RECURSIVE fbm_loop(_, _, _)
fbm_loop(p, left, s) ==
    IF left <= 0 THEN s
    ELSE fbm_loop(p, left - 1,
            [value |-> RAdd(s.value,
                            RMul(s.amplitude,
                                 noise(<<RMul(p[1], s.frequency),
                                         RMul(p[2], s.frequency)>>))),
             max_value |-> RAdd(s.max_value, s.amplitude),
             amplitude |-> RMul(s.amplitude, R(1, 2)),
             frequency |-> RMul(s.frequency, I(2))])

fbm_unnormalized(p, octaves) ==
    fbm_loop(p, octaves,
             [value |-> Zero, max_value |-> Zero,
              amplitude |-> R(1, 2), frequency |-> I(1)]).value

\* value / max_value; 0.0 / 0.0 is NaN when the loop does not run
fbm(p, octaves) ==
    LET s == fbm_loop(p, octaves,
                      [value |-> Zero, max_value |-> Zero,
                       amplitude |-> R(1, 2), frequency |-> I(1)])
    IN  IF s.max_value = Zero THEN "NaN" ELSE RDiv(s.value, s.max_value)

MaxOctaves == 4

FbmCoords == {R(-5, 4), Zero, R(1, 4), R(1, 2), R(3, 2), I(3)}

InitFbm ==
    /\ Idle
    /\ \E x \in FbmCoords, y \in FbmCoords, octaves \in 0 .. MaxOctaves :
          call = [fn |-> "input", p |-> <<x, y>>, octaves |-> octaves]

\* fbm called twice with the same arguments
CallFbm ==
    /\ call.fn = "input"
    /\ call' = [fn |-> "fbm",
                p |-> call.p,
                octaves |-> call.octaves,
                result |-> fbm(call.p, call.octaves),
                again |-> fbm(call.p, call.octaves)]
    /\ UNCHANGED <<fbvars, panicked, cleared, last, writes, log, rendered>>

NextFbm == CallFbm

SpecFbm == InitFbm /\ [][NextFbm]_vars

----------------------------------------------------------------------------
(* Properties of fbm *)

\* 2^n and (1/2)^n
RECURSIVE Pow2(_)
Pow2(n) == IF n = 0 THEN 1 ELSE 2 * Pow2(n - 1)

\* the sum over i in 0 .. n-1 of 0.5^(i+1) * noise(p * 2^i)
RECURSIVE WeightedNoise(_, _)
WeightedNoise(p, n) ==
    IF n = 0 THEN Zero
    ELSE RAdd(WeightedNoise(p, n - 1),
              RMul(R(1, Pow2(n)),
                   noise(<<RMul(p[1], I(Pow2(n - 1))),
                           RMul(p[2], I(Pow2(n - 1)))>>)))

\* the sum over i in 0 .. n-1 of 0.5^(i+1)
RECURSIVE Amplitudes(_)
Amplitudes(n) == IF n = 0 THEN Zero ELSE RAdd(Amplitudes(n - 1), R(1, Pow2(n)))

\* every noise value fbm reads for p with n octaves is in [0, 1]
NoiseInUnit(p, n) ==
    \A i \in 0 .. n - 1 :
       LET v == noise(<<RMul(p[1], I(Pow2(i))), RMul(p[2], I(Pow2(i)))>>)
       IN  RLe(Zero, v) /\ RLe(v, I(1))

\* C22: with at least one octave and noise values in [0, 1], fbm is the sum
\* of 0.5^(i+1) * noise(p * 2^i) over the octaves divided by the sum of the
\* amplitudes 0.5^(i+1), lies in [0, 1], and a second call with the same
\* arguments gives the same value.
C22_FbmIsNormalizedSum ==
    (call.fn = "fbm" /\ call.octaves >= 1
        /\ NoiseInUnit(call.p, call.octaves)) =>
       /\ call.result = RDiv(WeightedNoise(call.p, call.octaves),
                             Amplitudes(call.octaves))
       /\ RLe(Zero, call.result)
       /\ RLe(call.result, I(1))
       /\ call.again = call.result

\* fbm was called with three octaves at a point between lattice points and
\* gave a value strictly between 0 and 1
C22_Witness ==
    /\ call.fn = "fbm"
    /\ call.octaves = 3
    /\ call.p = <<R(1, 4), R(3, 2)>>
    /\ NoiseInUnit(call.p, call.octaves)
    /\ RLt(Zero, call.result)
    /\ RLt(call.result, I(1))
    /\ call.result # noise(call.p)

----------------------------------------------------------------------------
(* Winding and edges of the rasterizer.  Every triangle is compared with
   its five other orderings and with two triangles on one of its edges, so
   the vertices are drawn from four coordinates and one depth each. *)

WindingCoords == {R(-3, 2), Zero, R(1, 2), I(2)}

InitWinding ==
    /\ Idle
    /\ \E x1 \in WindingCoords, y1 \in WindingCoords, x2 \in WindingCoords,
          y2 \in WindingCoords, x3 \in WindingCoords, y3 \in WindingCoords :
          call = [fn |-> "input",
                  v1 |-> Transformed(x1, y1, Zero),
                  v2 |-> Transformed(x2, y2, I(1)),
                  v3 |-> Transformed(x3, y3, I(2))]

SpecWinding == InitWinding /\ [][NextTri]_vars

\* the pixel positions of the fragments of triangle(a, b, c)
PositionsOf(a, b, c) ==
    LET fs == triangle(a, b, c)
    IN  {fs[k].position : k \in 1 .. Len(fs)}

\* the integer point p lies on the closed segment from a to b
OnSegment(p, a, b) ==
    /\ Cross(a, b, <<I(p[1]), I(p[2])>>) = Zero
    /\ Between(I(p[1]), a[1], b[1], b[1])
    /\ Between(I(p[2]), a[2], b[2], b[2])

\* third vertices of triangles that share the edge v1 v2 of the call
OtherSides == {Transformed(I(4), I(4), Zero), Transformed(R(-3, 2), I(2), Zero)}

\* C23: the six orderings of the three vertices give the same set of
\* fragment positions; every integer pixel on an edge or at a vertex of
\* the triangle is emitted; a second triangle on the edge v1 v2 emits the
\* integer pixels of that edge as well.
C23_WindingAndEdges ==
    call.fn = "triangle" =>
       /\ PositionsOf(call.v1, call.v3, call.v2) = Emitted
       /\ PositionsOf(call.v2, call.v1, call.v3) = Emitted
       /\ PositionsOf(call.v2, call.v3, call.v1) = Emitted
       /\ PositionsOf(call.v3, call.v1, call.v2) = Emitted
       /\ PositionsOf(call.v3, call.v2, call.v1) = Emitted
       /\ {p \in Lattice : OnSegment(p, P1, P2) \/ OnSegment(p, P2, P3)
                                \/ OnSegment(p, P3, P1)} \subseteq Emitted
       /\ \A o \in OtherSides :
             Then(PositionsOf(call.v2, call.v1, o),
                  LAMBDA other :
                     \A p \in Lattice : OnSegment(p, P1, P2) => p \in other)

\* a clockwise triangle of positive area with non-integer vertices has been
\* rasterized; an integer pixel inside an edge, away from the vertices, was
\* emitted
C23_Witness ==
    /\ call.fn = "triangle"
    /\ RLt(Cross(P1, P2, P3), Zero)
    /\ P1[1] = R(1, 2) /\ P1[2] = R(1, 2)
    /\ \E p \in Emitted :
          /\ OnSegment(p, P1, P2)
          /\ <<I(p[1]), I(p[2])>> # <<P2[1], P2[2]>>
    /\ \E p \in Emitted : ~OnSegment(p, P1, P2)

----------------------------------------------------------------------------
(* The depth of the fragments, checked under SpecTri *)

\* the edge value of the pixel px for the edge from a to b:
\* (x - b.x) * (a.y - b.y) - (a.x - b.x) * (y - b.y)
EdgeValue(px, a, b) ==
    RSub(RMul(RSub(I(px[1]), b[1]), RSub(a[2], b[2])),
         RMul(RSub(a[1], b[1]), RSub(I(px[2]), b[2])))

\* |d1|, |d2|, |d3| at the pixel px for the triangle of the call
AbsEdgeValues(px) ==
    <<RAbs(EdgeValue(px, P1, P2)), RAbs(EdgeValue(px, P2, P3)),
      RAbs(EdgeValue(px, P3, P1))>>

EdgeSum(px) ==
    RAdd(RAdd(AbsEdgeValues(px)[1], AbsEdgeValues(px)[2]),
         AbsEdgeValues(px)[3])

\* C24: for every fragment at a pixel with |d1| + |d2| + |d3| >= 0.0001 the
\* weights |di| / (|d1| + |d2| + |d3|) are at least 0 and sum to 1, the
\* depth is the sum of the vertices' z with these weights and lies between
\* the least and the greatest z; the depth of every fragment is a number,
\* the divisor being at least 0.0001.
C24_DepthIsConvex ==
    call.fn = "triangle" =>
       \A k \in 1 .. Len(call.result) :
          LET px == call.result[k].position
              d == AbsEdgeValues(px)
              s == EdgeSum(px)
              z == call.result[k].depth
          IN  /\ z[2] > 0
              /\ RLe(R(1, 10000), s) =>
                    LET w == [i \in 1 .. 3 |-> RDiv(d[i], s)]
                    IN  /\ \A i \in 1 .. 3 : RLe(Zero, w[i])
                        /\ RAdd(RAdd(w[1], w[2]), w[3]) = I(1)
                        /\ z = RAdd(RAdd(RMul(P1[3], w[1]), RMul(P2[3], w[2])),
                                    RMul(P3[3], w[3]))
                        /\ Between(z, P1[3], P2[3], P3[3])

\* a clockwise triangle of depths 0, 1, 2 has a fragment strictly inside it,
\* with three positive weights and a depth strictly between 0 and 2
C24_Witness ==
    /\ call.fn = "triangle"
    /\ RLt(Cross(P1, P2, P3), Zero)
    /\ <<P1[3], P2[3], P3[3]>> = <<Zero, I(1), I(2)>>
    /\ \E k \in 1 .. Len(call.result) :
          /\ \A i \in 1 .. 3 : RLt(Zero, AbsEdgeValues(call.result[k].position)[i])
          /\ RLt(Zero, call.result[k].depth)
          /\ RLt(call.result[k].depth, I(2))

\* the inner product of b - a and c - a
Dot(a, b, c) ==
    RAdd(RMul(RSub(b[1], a[1]), RSub(c[1], a[1])),
         RMul(RSub(b[2], a[2]), RSub(c[2], a[2])))

\* the triangle of the call has positive area and three angles below 90
\* degrees
Acute ==
    /\ Area2(P1, P2, P3) # Zero
    /\ RLt(Zero, Dot(P1, P2, P3))
    /\ RLt(Zero, Dot(P2, P3, P1))
    /\ RLt(Zero, Dot(P3, P1, P2))

\* the barycentric interpolation of the three z at the pixel px of a
\* triangle of positive area: each z weighted by the area of the triangle
\* px makes with the opposite edge
BarycentricDepth(px) ==
    LET p == <<I(px[1]), I(px[2])>>
    IN  RDiv(RAdd(RAdd(RMul(P1[3], Area2(p, P2, P3)),
                       RMul(P2[3], Area2(p, P3, P1))),
                  RMul(P3[3], Area2(p, P1, P2))),
             Area2(P1, P2, P3))

\* C25: every fragment of an acute triangle of positive area has the
\* barycentric interpolation of the vertices' z as its depth; a fragment at
\* the screen position of a vertex has that vertex's z.
C25_DepthIsBarycentric ==
    (call.fn = "triangle" /\ Acute) =>
       \A k \in 1 .. Len(call.result) :
          LET px == call.result[k].position
              z == call.result[k].depth
          IN  /\ z = BarycentricDepth(px)
              /\ \A q \in {P1, P2, P3} :
                    (q[1] = I(px[1]) /\ q[2] = I(px[2])) => z = q[3]

----------------------------------------------------------------------------
(* Degenerate triangles, checked under SpecTri *)

Degenerate == Area2(P1, P2, P3) = Zero

\* the three edge values of the pixel px are 0
AllEdgeValuesZero(px) ==
    /\ EdgeValue(px, P1, P2) = Zero
    /\ EdgeValue(px, P2, P3) = Zero
    /\ EdgeValue(px, P3, P1) = Zero

\* floor(min) <= px <= ceil(max) on both axes, over the three vertices
InBoundingBox(px) ==
    /\ \E q \in {P1, P2, P3} : RLt(RSub(q[1], I(1)), I(px[1]))
    /\ \E q \in {P1, P2, P3} : RLt(I(px[1]), RAdd(q[1], I(1)))
    /\ \E q \in {P1, P2, P3} : RLt(RSub(q[2], I(1)), I(px[2]))
    /\ \E q \in {P1, P2, P3} : RLt(I(px[2]), RAdd(q[2], I(1)))

\* C26 as stated: a triangle of area 0 yields only fragments at pixels where
\* the three edge values are 0, which lie on the segment or point spanned
\* by the vertices; no pixel off that segment is emitted.
C26_DegenerateEmitsOnSegment ==
    (call.fn = "triangle" /\ Degenerate) =>
       \A p \in Emitted :
          /\ AllEdgeValuesZero(p)
          /\ InBoundingBox(p)
          /\ p \in LatticePointsInside

\* C26 amended: a triangle of area 0 yields exactly the pixels of its
\* bounding box, taken from the floor of the least to the ceiling of the
\* greatest coordinate, where the three edge values are 0: the pixels of
\* the box on the line through the vertices, and every pixel of the box
\* when the three vertices coincide.  With integer vertices these are the
\* integer pixels of the segment or point spanned by the vertices.
C26_DegenerateEmitsOnLineInBox ==
    (call.fn = "triangle" /\ Degenerate) =>
       /\ Emitted = {p \in Lattice : InBoundingBox(p) /\ AllEdgeValuesZero(p)}
       /\ (P1 = P2 /\ P2 = P3) => Emitted = {p \in Lattice : InBoundingBox(p)}
       /\ IntegerVertices => Emitted = LatticePointsInside

\* a triangle whose vertices are three times (1/2, 1/2) has yielded the four
\* pixels around that point, none of them at it
C26_Witness ==
    /\ call.fn = "triangle"
    /\ Degenerate
    /\ <<P1[1], P1[2]>> = <<R(1, 2), R(1, 2)>>
    /\ <<P2[1], P2[2]>> = <<R(1, 2), R(1, 2)>>
    /\ <<P3[1], P3[2]>> = <<R(1, 2), R(1, 2)>>
    /\ Emitted = {<<0, 0>>, <<1, 0>>, <<0, 1>>, <<1, 1>>}
    /\ LatticePointsInside = {}

----------------------------------------------------------------------------
(* clear after different histories: the framebuffer of InitRender, with
   every clear recorded *)

MaxClears == 2

InitHistory ==
    /\ width = 4
    /\ height = 3
    /\ image = Fill(4, 3, BLACK)
    /\ background_color = <<0, 0, 0>>
    /\ texture = [some |-> TRUE, width |-> 4, height |-> 3]
    /\ star_field = StarTable[<<4, 3>>]
    /\ panicked = "none"
    /\ cleared = [done |-> FALSE, background |-> <<0, 0, 0>>]
    /\ last = Op("init_texture")
    /\ writes = 0
    /\ log = <<>>
    /\ rendered = NoRender
    /\ call = [fn |-> "clear", runs |-> <<>>]

\* a clear that leaves the pixel of the latest point call as it is
HistoryClear_keeping_last_point ==
    /\ panicked = "none"
    /\ Len(call.runs) < MaxClears
    /\ \E after \in {clear(width, height, background_color, star_field)} :
          /\ image' = [p \in Pixels(width, height) |->
                           IF /\ last.op = "point"
                              /\ p = <<last.x, last.y>>
                           THEN image[p]
                           ELSE after[p]]
          /\ call' = [call EXCEPT !.runs =
                         Append(@, [background |-> background_color,
                                    points |-> writes,
                                    before |-> image,
                                    after |-> image'])]
    /\ cleared' = [done |-> TRUE, background |-> background_color]
    /\ writes' = 0
    /\ log' = <<>>
    /\ last' = Op("clear")
    /\ UNCHANGED <<width, height, background_color, texture, star_field,
                   panicked, rendered>>

\* framebuffer.clear(); the run is recorded: the background, the number of
\* point calls since the clear before, the image before and the image after
HistoryClear ==
    /\ panicked = "none"
    /\ Len(call.runs) < MaxClears
    /\ image' = clear(width, height, background_color, star_field)
    /\ call' = [call EXCEPT !.runs =
                   Append(@, [background |-> background_color,
                              points |-> writes,
                              before |-> image,
                              after |-> image'])]
    /\ cleared' = [done |-> TRUE, background |-> background_color]
    /\ writes' = 0
    /\ log' = <<>>
    /\ last' = Op("clear")
    /\ UNCHANGED <<width, height, background_color, texture, star_field,
                   panicked, rendered>>

\* the backgrounds set and the pixels written between the clears: a pixel
\* of the buffer and one to the right of it
HistoryColors == {<<0, 0, 0>>, <<1, 1, 5>>}

HistoryCoords == {<<2, 1>>, <<4, 1>>}

NextHistory ==
    \/ \E c \in HistoryColors : SetBackgroundColor(c)
    \/ \E p \in HistoryCoords : Point(p[1], p[2], <<100, 0, 0>>)
    \/ HistoryClear

SpecHistory == InitHistory /\ [][NextHistory]_vars

\* C27: two clears with the same background_color leave the same buffer,
\* whatever point and clear calls came before each of them; what a clear
\* leaves is given by width, height, background_color and star_field; a
\* clear right after a clear with the same background changes nothing.
C27_ClearErasesHistory ==
    call.fn = "clear" =>
       /\ \A i, j \in 1 .. Len(call.runs) :
             call.runs[i].background = call.runs[j].background =>
                \A p \in Pixels(width, height) :
                   call.runs[i].after[p] = call.runs[j].after[p]
       /\ \A i \in 1 .. Len(call.runs) :
             /\ \A p \in Pixels(width, height) :
                   call.runs[i].after[p] =
                      ClearTable[<<width, height>>][call.runs[i].background][p]
             /\ (i > 1 /\ call.runs[i].points = 0
                   /\ call.runs[i].background = call.runs[i - 1].background)
                => \A p \in Pixels(width, height) :
                      call.runs[i].after[p] = call.runs[i].before[p]

\* two clears with the same background: the first on the new buffer, the
\* second after two point calls, one of which changed the buffer
C27_Witness ==
    /\ call.fn = "clear"
    /\ Len(call.runs) = 2
    /\ call.runs[1].background = <<1, 1, 5>>
    /\ call.runs[2].background = <<1, 1, 5>>
    /\ \A p \in Pixels(4, 3) : call.runs[1].before[p] = BLACK
    /\ call.runs[2].points = 2
    /\ \E p \in Pixels(4, 3) : call.runs[2].before[p] # call.runs[1].after[p]
    /\ \A p \in Pixels(4, 3) : call.runs[2].after[p] = call.runs[1].after[p]
    /\ last.op = "clear"

----------------------------------------------------------------------------
(* Obj::load followed by get_vertex_array, as main does for every model *)

\* self.vertices[index as usize].clone() for every index, in order; an
\* index past the end of vertices panics
get_vertex_array(obj) ==
    IF \E t \in 1 .. Len(obj.indices) : obj.indices[t] >= Len(obj.vertices)
    THEN [panicked |-> TRUE, vertex_array |-> <<>>]
    ELSE [panicked |-> FALSE,
          vertex_array |-> [t \in 1 .. Len(obj.indices) |->
                               obj.vertices[obj.indices[t] + 1]]]

CallGetVertexArray ==
    /\ call.fn = "Obj::load"
    /\ call.result.ok
    /\ call' = [fn |-> "get_vertex_array",
                file |-> call.file,
                obj |-> call.result,
                result |-> get_vertex_array(call.result)]
    /\ UNCHANGED <<fbvars, panicked, cleared, last, writes, log, rendered>>

NextMesh == CallObjLoad \/ CallGetVertexArray

SpecMesh == InitObj /\ [][NextMesh]_vars

\* the number of indices contributed by the models before the k-th
RECURSIVE IndicesBefore(_, _)
IndicesBefore(models, k) ==
    IF k <= 1 THEN 0
    ELSE IndicesBefore(models, k - 1) + Len(models[k - 1].indices)

\* C28: no index of the loaded Obj is out of range of its vertices, and the
\* vertex that get_vertex_array gives for the j-th index of sub-model k is
\* the vertex loaded from sub-model k's own position with that index.
C28_IndicesResolveInOwnSubModel ==
    call.fn = "get_vertex_array" =>
       /\ ~call.result.panicked
       /\ \A k \in 1 .. Len(call.file.models) :
             \A j \in 1 .. Len(call.file.models[k].indices) :
                call.result.vertex_array[IndicesBefore(call.file.models, k) + j] =
                   call.obj.vertices[VerticesBefore(call.file.models, k)
                                       + call.file.models[k].indices[j] + 1]

----------------------------------------------------------------------------
(* render given vertex arrays that differ in the baked attributes only *)

\* the vertex array with the same positions and another color, normal and
\* tex_coords in every vertex
Repainted(vertex_array) ==
    [i \in 1 .. Len(vertex_array) |->
        [vertex_array[i] EXCEPT
            !.color = <<20, 40, 60>>,
            !.normal = <<I(1), Zero, Zero>>,
            !.tex_coords = <<R(1, 2), R(i, 4)>>]]

PaintMeshes == {Mesh(0, 3), Repainted(Mesh(0, 3)), Repainted(Mesh(1, 3))}

NextPaint ==
    \/ Clear
    \/ \E b \in RenderTypes, va \in PaintMeshes :
          ReplayRender([model_matrix |-> Identity, time |-> 1,
                        planet_type |-> b], va)

SpecPaint == InitReplay /\ [][NextPaint]_vars

SamePositions(va, vb) ==
    /\ Len(va) = Len(vb)
    /\ \A i \in 1 .. Len(va) : va[i].position = vb[i].position

----------------------------------------------------------------------------
(* generate_stars statement by statement, with the u64 arithmetic in full *)

\* the three 11-bit limbs of x in 0 .. 2^31 - 1, lowest first
Limbs(x) == <<x % 2048, (x \div 2048) % 2048, x \div 4194304>>

\* the base-2^11 digits of a number given as unreduced limbs, lowest first
RECURSIVE Carry(_, _, _)
Carry(limbs, k, carry) ==
    IF k > Len(limbs) THEN <<carry>>
    ELSE <<(limbs[k] + carry) % 2048>>
            \o Carry(limbs, k + 1, (limbs[k] + carry) \div 2048)

\* a * seed + c over the integers, as base-2^11 digits, for a, seed and c
\* in 0 .. 2^31 - 1
mul_add(a, seed, c) ==
    LET x == Limbs(a)
        y == Limbs(seed)
        z == Limbs(c)
    IN  Carry(<<x[1] * y[1] + z[1],
                x[1] * y[2] + x[2] * y[1] + z[2],
                x[1] * y[3] + x[2] * y[2] + x[3] * y[1] + z[3],
                x[2] * y[3] + x[3] * y[2],
                x[3] * y[3]>>, 1, 0)

\* a.wrapping_mul(seed).wrapping_add(c) wraps when a * seed + c reaches
\* 2^64, which is digit 6 reaching 2^9
wraps(digits) == digits[6] >= 512

\* (a.wrapping_mul(seed).wrapping_add(c)) % m with m = 2^31: the low 31
\* bits, which the reduction to 64 bits leaves alone
lcg_step(seed) ==
    LET digits == mul_add(LcgA, seed, LcgC)
    IN  [seed |-> digits[1] + 2048 * digits[2] + 4194304 * (digits[3] % 512),
         wrapped |-> wraps(digits)]

InitStars ==
    /\ \E d \in Dims : new(d[1], d[2])
    /\ panicked = "none"
    /\ cleared = [done |-> FALSE, background |-> <<0, 0, 0>>]
    /\ last = Op("new")
    /\ writes = 0
    /\ log = <<>>
    /\ rendered = NoRender
    /\ call = [fn |-> "generate_stars", width |-> width, height |-> height,
               pc |-> "x", seed |-> LcgSeed, stars |-> <<>>, steps |-> 0,
               x |-> 0, y |-> 0, wrapped |-> FALSE]

\* seed = ...; let x = (seed % width as u64) as i32;
StarX ==
    /\ call.fn = "generate_stars"
    /\ call.pc = "x"
    /\ Len(call.stars) < StarCount
    /\ \E r \in {lcg_step(call.seed)} :
          call' = [call EXCEPT !.seed = r.seed,
                               !.wrapped = @ \/ r.wrapped,
                               !.steps = @ + 1,
                               !.x = r.seed % call.width,
                               !.pc = "y"]
    /\ UNCHANGED <<fbvars, panicked, cleared, last, writes, log, rendered>>

\* seed = ...; let y = (seed % height as u64) as i32;
StarY ==
    /\ call.fn = "generate_stars"
    /\ call.pc = "y"
    /\ \E r \in {lcg_step(call.seed)} :
          call' = [call EXCEPT !.seed = r.seed,
                               !.wrapped = @ \/ r.wrapped,
                               !.steps = @ + 1,
                               !.y = r.seed % call.height,
                               !.pc = "brightness"]
    /\ UNCHANGED <<fbvars, panicked, cleared, last, writes, log, rendered>>

\* seed = ...; let brightness = 0.3 + (seed % 70) as f32 / 100.0;
\* stars.push((x, y, brightness));
StarBrightness ==
    /\ call.fn = "generate_stars"
    /\ call.pc = "brightness"
    /\ \E r \in {lcg_step(call.seed)} :
          call' = [call EXCEPT !.seed = r.seed,
                               !.wrapped = @ \/ r.wrapped,
                               !.steps = @ + 1,
                               !.stars = Append(@, <<call.x, call.y,
                                                     30 + (r.seed % 70)>>),
                               !.pc = "x"]
    /\ UNCHANGED <<fbvars, panicked, cleared, last, writes, log, rendered>>

NextStars == StarX \/ StarY \/ StarBrightness

SpecStars == InitStars /\ [][NextStars]_vars

\* the statements of the loop passed so far
StepsOfIteration ==
    IF call.pc = "x" THEN 0 ELSE IF call.pc = "y" THEN 1 ELSE 2

\* C30: in generate_stars the state stays in [0, 2^31) and a * seed + c
\* never reaches 2^64; every star takes three steps and has a brightness in
\* [0.30, 0.99]; the loop ends with exactly 800 stars, the same as the star
\* field of the framebuffer constructed with this width and height, which
\* has 800 stars with brightness in [0.30, 0.99] itself.
C30_LcgStaysInRange ==
    call.fn = "generate_stars" =>
       /\ call.seed >= 0 /\ call.seed <= LcgMaxState
       /\ ~call.wrapped
       /\ call.steps = 3 * Len(call.stars) + StepsOfIteration
       /\ Len(call.stars) <= StarCount
       /\ \A i \in 1 .. Len(call.stars) :
             /\ call.stars[i][3] >= 30 /\ call.stars[i][3] <= 99
             /\ call.stars[i] = star_field[i]
       /\ Len(star_field) = StarCount
       /\ \A i \in 1 .. Len(star_field) :
             star_field[i][3] >= 30 /\ star_field[i][3] <= 99
       /\ ~ENABLED NextStars => Len(call.stars) = StarCount

\* the loop has ended: 800 stars after 2400 steps, the dimmest and the
\* brightest possible star among them
C30_Witness ==
    /\ call.fn = "generate_stars"
    /\ call.steps = 3 * StarCount
    /\ Len(call.stars) = StarCount
    /\ call.stars = star_field
    /\ \E i \in 1 .. StarCount : call.stars[i][3] = 30
    /\ \E i \in 1 .. StarCount : call.stars[i][3] = 99

=============================================================================
